---- MODULE Spec2Model ----
(***************************************************************************)
(* A model of the coeditor pipeline of TypeT5:                             *)
(*   - C3ProblemGenerator.process_change  (ctx_change_encoder.py)          *)
(*   - C3ProblemTokenizer.tokenize_problem (ctx_change_encoder.py)         *)
(*   - edits_from_commit_history / _process_commits                        *)
(*     (code_change.py, dataset.py)                                        *)
(* Each subsystem has its own specification (SpecGen, SpecTok, SpecReplay) *)
(* over the shared variables; the variables of the other subsystems stay   *)
(* at their initial values.                                                *)
(***************************************************************************)
EXTENDS Integers, Sequences, FiniteSets, TLC

VARIABLES
    \* ---- C3ProblemGenerator.process_change ----
    is_training,        \* self._is_training
    module_order,       \* the module_order argument
    changed,            \* pchange.changed: module -> its changed map (in dict order)
    g_mi,               \* position of `for m in module_order`
    g_si,               \* position of `for span in mchange.changed.values()`
    processed_cspans,   \* the rolling list processed_cspans
    problems,           \* the list problems
    mod2usages,         \* the mod2usages argument (result of pre_edit_analysis)
    g_pc,               \* "loop" | "done"
    \* ---- edits_from_commit_history / _process_commits ----
    r_history,          \* history: commits newest first, each the tree it checks out
    r_third,            \* the third file of the repository (beside a.py and b.py)
    r_pc,               \* "start" | "created" | "copied" | "loop" | "returned" | "raised"
    r_tempdir,          \* whether tempdir exists on disk
    r_created,          \* whether this call created tempdir
    r_now,              \* commit_now (index into history)
    r_next,             \* index of the next commit of future_commits
    module_scripts,     \* module_scripts: file -> parsed module
    r_results,          \* results
    r_diff,             \* changed_files of the last processed commit
    r_path_changes,     \* path_changes of the last processed commit
    r_checkouts,        \* the commits checked out so far, in order
    r_enc_calls,        \* the change_encoder calls so far: [from, to, out]
    r_failed,           \* the commit whose processing raised (0: none)
    r_cause,            \* what raised: "" | "exists" | "copy" | "checkout" | "parse" |
                        \* "keyerror" | "encoder"
    r_edits,            \* _ProcessingResult.edits of _process_commits
    \* ---- C3ProblemTokenizer.tokenize_problem ----
    tk_cfg,             \* self: the tokenizer's configuration
    tk_problem,         \* problem: the span's original lines and deltas, its
                        \* parent scopes and the relevant spans
    tk_pc,              \* "start" | "walk" | "done" | "raised"
    named_references,   \* named_references
    scope_tks,          \* scope_tks
    tk_l,               \* l of `for l in range(len(tk_delta.deltas) + 1)`
    chunk_input,        \* chunk_input
    chunk_output,       \* chunk_output
    chunk_lines,        \* chunk_lines
    chunk_start_l,      \* chunk_start_l
    prev_change_tks,    \* prev_change_tks
    tk_problems,        \* problems (each with all_refs, the references considered)
    \* ---- the line delta engine ----
    d_before,           \* the first blob, as its lines
    d_after,            \* the second blob, as its lines
    d_pc,               \* "start" | "computed" | "applied"
    d_delta,            \* (original, delta) of line_diffs_to_original_delta
    d_applied,          \* delta.apply_to_input(original)
    \* ---- JediUsageAnalyzer.get_line_usages ----
    u_used_names,       \* jmod.get_used_names(): the names in dict order
    lines_to_analyze,   \* lines_to_analyze
    all_names,          \* all_names, sorted by start_pos
    u_i,                \* position of `for name in all_names`
    line2usages,        \* line2usages
    error_counts,       \* self.error_counts
    u_counts0,          \* self.error_counts when the call starts
    u_pc,               \* "start" | "loop" | "done"
    u_result,           \* the LineUsageAnalysis returned
    \* ---- C3ProblemGenerator.post_edit_analysis ----
    o_imports,          \* module.imported_names of every module, each with what the resolver does
    o_changed,          \* the keys of pchange.changed
    o_mi,               \* position of `for rel_path, module in modules.items()`
    module_deps,        \* module_deps
    o_errors,           \* number of analyzer.add_error calls
    o_order,            \* the module order returned
    o_vi,               \* position of `for m in module_order` of process_change
    o_visited,          \* the changed modules process_change has visited
    o_pc,               \* "analyze" | "sort" | "visit" | "done"
    \* ---- the identity-keyed caches of C3ProblemTokenizer ----
    c_problem,          \* the scope changes of the live C3Problem, in the order they are encoded
    scope_cache,        \* self._scope_cache: (key, tokens) entries, oldest first
    c_results,          \* what the calls of tokenize_problem on the live problem returned
    c_nprob,            \* number of problems given to the tokenizer so far
    c_pc,               \* "ready"
    \* ---- ChangeScope.from_tree, get_changed_spans, JModuleChange.from_modules ----
    sp_tag,             \* module_change: "A" | "D" | "M"
    sp_before,          \* the module tree before the commit (its top-level nodes)
    sp_after,           \* the module tree after the commit
    sp_scope_change,    \* module_change.map(lambda m: m._to_scope())
    sp_spans,           \* the list get_changed_spans returns
    sp_changed,         \* JModuleChange.changed: (path, ChangedSpan) entries in dict order
    sp_result,          \* pre_edit_analysis: module name -> lines_to_analyze of its usages
    sp_pc,              \* "start" | "parsed" | "diffed" | "stored"
    \* ---- the chunking of commit histories in dataset_from_projects ----
    ch_histories,       \* histories: per project root, the commits kept (positions in the newest-first git history)
    ch_ri,              \* index of the root the zip loop is at
    ch_i,               \* the i of `for i in range(0, len(h), history_chunk_size)`
    ch_roots,           \* roots: the root of each chunk
    chunked_histories,  \* chunked_histories: the commits of each chunk
    ch_workdirs,        \* workdirs: the number i of `chunk-{i}` of each chunk
    ch_calls,           \* the calls of _process_commits made by pmap: root, workdir, commits
    ch_pc,              \* "chunking", "mapping", "done"
    \* ---- the analyzer-error report of dataset_from_projects ----
    rp_stats,           \* stats["analyzer_errors"]: error text -> count, summed over the chunks
    rp_errors,          \* errors: the dict popped from stats, while it is filtered
    rp_report,          \* the lines printed under "Analyzer errors:": (text, count)
    rp_pc               \* "collected", "filtered", "printed"

genVars == <<is_training, module_order, changed, g_mi, g_si, processed_cspans,
             problems, mod2usages, g_pc>>

replayVars == <<r_history, r_third, r_pc, r_tempdir, r_created, r_now, r_next,
                module_scripts, r_results, r_diff, r_path_changes, r_checkouts,
                r_enc_calls, r_failed, r_cause, r_edits>>

tokVars == <<tk_cfg, tk_problem, tk_pc, named_references, scope_tks, tk_l,
             chunk_input, chunk_output, chunk_lines, chunk_start_l,
             prev_change_tks, tk_problems>>

deltaVars == <<d_before, d_after, d_pc, d_delta, d_applied>>

usageVars == <<u_used_names, lines_to_analyze, all_names, u_i, line2usages, error_counts, u_counts0, u_pc, u_result>>

orderVars == <<o_imports, o_changed, o_mi, module_deps, o_errors, o_order, o_vi, o_visited, o_pc>>

cacheVars == <<c_problem, scope_cache, c_results, c_nprob, c_pc>>

spansVars == <<sp_tag, sp_before, sp_after, sp_scope_change, sp_spans, sp_changed, sp_result, sp_pc>>

chunkVars == <<ch_histories, ch_ri, ch_i, ch_roots, chunked_histories, ch_workdirs, ch_calls, ch_pc>>

reportVars == <<rp_stats, rp_errors, rp_report, rp_pc>>

vars == <<genVars, replayVars, tokVars, deltaVars, usageVars, orderVars, cacheVars, spansVars, chunkVars, reportVars>>

\* no statistics have been collected
ReportIdle ==
    /\ rp_stats = <<>>
    /\ rp_errors = <<>>
    /\ rp_report = <<>>
    /\ rp_pc = "idle"

\* dataset_from_projects has not been called
ChunkIdle ==
    /\ ch_histories = <<>>
    /\ ch_ri = 0
    /\ ch_i = 0
    /\ ch_roots = <<>>
    /\ chunked_histories = <<>>
    /\ ch_workdirs = <<>>
    /\ ch_calls = <<>>
    /\ ch_pc = "idle"

\* JModuleChange.from_modules is not running
SpansIdle ==
    /\ sp_tag = ""
    /\ sp_before = <<>>
    /\ sp_after = <<>>
    /\ sp_scope_change = <<>>
    /\ sp_spans = <<>>
    /\ sp_changed = <<>>
    /\ sp_result = <<>>
    /\ sp_pc = "idle"

\* no tokenizer has been constructed
CacheIdle ==
    /\ c_problem = <<>>
    /\ scope_cache = <<>>
    /\ c_results = <<>>
    /\ c_nprob = 0
    /\ c_pc = "idle"

\* post_edit_analysis is not running
OrderIdle ==
    /\ o_imports = <<>>
    /\ o_changed = {}
    /\ o_mi = 0
    /\ module_deps = <<>>
    /\ o_errors = 0
    /\ o_order = <<>>
    /\ o_vi = 0
    /\ o_visited = <<>>
    /\ o_pc = "idle"

\* get_line_usages is not running
UsageIdle ==
    /\ u_used_names = <<>>
    /\ lines_to_analyze = {}
    /\ all_names = <<>>
    /\ u_i = 0
    /\ line2usages = <<>>
    /\ error_counts = <<>>
    /\ u_counts0 = <<>>
    /\ u_pc = "idle"
    /\ u_result = <<>>

\* the line delta engine is not running
DeltaIdle ==
    /\ d_before = <<>>
    /\ d_after = <<>>
    /\ d_pc = "idle"
    /\ d_delta = <<>>
    /\ d_applied = <<>>

\* tokenize_problem is not running
TokIdle ==
    /\ tk_cfg = <<>>
    /\ tk_problem = <<>>
    /\ tk_pc = "idle"
    /\ named_references = <<>>
    /\ scope_tks = <<>>
    /\ tk_l = 0
    /\ chunk_input = <<>>
    /\ chunk_output = <<>>
    /\ chunk_lines = 0
    /\ chunk_start_l = 0
    /\ prev_change_tks = <<>>
    /\ tk_problems = <<>>

\* edits_from_commit_history is not running
ReplayIdle ==
    /\ r_history = <<>>
    /\ r_third = "n.txt"
    /\ r_pc = "idle"
    /\ r_tempdir = FALSE
    /\ r_created = FALSE
    /\ r_now = 0
    /\ r_next = 0
    /\ module_scripts = <<>>
    /\ r_results = <<>>
    /\ r_diff = <<>>
    /\ r_path_changes = <<>>
    /\ r_checkouts = <<>>
    /\ r_enc_calls = <<>>
    /\ r_failed = 0
    /\ r_cause = ""
    /\ r_edits = <<>>

\* process_change is not running
GenIdle ==
    /\ is_training = FALSE
    /\ module_order = <<>>
    /\ changed = <<>>
    /\ g_mi = 1
    /\ g_si = 1
    /\ processed_cspans = <<>>
    /\ problems = <<>>
    /\ mod2usages = <<>>
    /\ g_pc = "idle"

\* The variables outside each subsystem, and their idle values
notGenVars == <<replayVars, tokVars, deltaVars, usageVars, orderVars, cacheVars, spansVars, chunkVars, reportVars>>

NotGenIdle == ReplayIdle /\ TokIdle /\ DeltaIdle /\ UsageIdle /\ OrderIdle /\ CacheIdle /\ SpansIdle /\ ChunkIdle /\ ReportIdle

notReplayVars == <<genVars, tokVars, deltaVars, usageVars, orderVars, cacheVars, spansVars, chunkVars, reportVars>>

NotReplayIdle == GenIdle /\ TokIdle /\ DeltaIdle /\ UsageIdle /\ OrderIdle /\ CacheIdle /\ SpansIdle /\ ChunkIdle /\ ReportIdle

notTokVars == <<genVars, replayVars, deltaVars, usageVars, orderVars, cacheVars, spansVars, chunkVars, reportVars>>

NotTokIdle == GenIdle /\ ReplayIdle /\ DeltaIdle /\ UsageIdle /\ OrderIdle /\ CacheIdle /\ SpansIdle /\ ChunkIdle /\ ReportIdle

notDeltaVars == <<genVars, replayVars, tokVars, usageVars, orderVars, cacheVars, spansVars, chunkVars, reportVars>>

NotDeltaIdle == GenIdle /\ ReplayIdle /\ TokIdle /\ UsageIdle /\ OrderIdle /\ CacheIdle /\ SpansIdle /\ ChunkIdle /\ ReportIdle

notUsageVars == <<genVars, replayVars, tokVars, deltaVars, orderVars, cacheVars, spansVars, chunkVars, reportVars>>

NotUsageIdle == GenIdle /\ ReplayIdle /\ TokIdle /\ DeltaIdle /\ OrderIdle /\ CacheIdle /\ SpansIdle /\ ChunkIdle /\ ReportIdle

notOrderVars == <<genVars, replayVars, tokVars, deltaVars, usageVars, cacheVars, spansVars, chunkVars, reportVars>>

NotOrderIdle == GenIdle /\ ReplayIdle /\ TokIdle /\ DeltaIdle /\ UsageIdle /\ CacheIdle /\ SpansIdle /\ ChunkIdle /\ ReportIdle

notCacheVars == <<genVars, replayVars, tokVars, deltaVars, usageVars, orderVars, spansVars, chunkVars, reportVars>>

NotCacheIdle == GenIdle /\ ReplayIdle /\ TokIdle /\ DeltaIdle /\ UsageIdle /\ OrderIdle /\ SpansIdle /\ ChunkIdle /\ ReportIdle

notSpansVars == <<genVars, replayVars, tokVars, deltaVars, usageVars, orderVars, cacheVars, chunkVars, reportVars>>

NotSpansIdle == GenIdle /\ ReplayIdle /\ TokIdle /\ DeltaIdle /\ UsageIdle /\ OrderIdle /\ CacheIdle /\ ChunkIdle /\ ReportIdle

notChunkVars == <<genVars, replayVars, tokVars, deltaVars, usageVars, orderVars, cacheVars, spansVars, reportVars>>

NotChunkIdle == GenIdle /\ ReplayIdle /\ TokIdle /\ DeltaIdle /\ UsageIdle /\ OrderIdle /\ CacheIdle /\ SpansIdle /\ ReportIdle

notReportVars == <<genVars, replayVars, tokVars, deltaVars, usageVars, orderVars, cacheVars, spansVars, chunkVars>>

NotReportIdle == GenIdle /\ ReplayIdle /\ TokIdle /\ DeltaIdle /\ UsageIdle /\ OrderIdle /\ CacheIdle /\ SpansIdle /\ ChunkIdle

\* ------------------------------------------------------------------------
\* Generic helpers
\* ------------------------------------------------------------------------
Range(s) == {s[i] : i \in 1..Len(s)}

Reverse(s) == [i \in 1..Len(s) |-> s[Len(s) + 1 - i]]

RECURSIVE Flatten(_)
Flatten(ss) == IF ss = <<>> THEN <<>> ELSE Head(ss) \o Flatten(Tail(ss))

\* str.startswith on names modelled as sequences of characters
StartsWith(s, p) == Len(p) <= Len(s) /\ SubSeq(s, 1, Len(p)) = p

SeqsUpTo(S, n) == UNION {[1..k -> S] : k \in 0..n}

\* ------------------------------------------------------------------------
\* JProjectChange.edits_from_commit_history, _edits_from_commit_history
\* and dataset._process_commits
\* ------------------------------------------------------------------------
\* Bound: the number of commits of a history.
MaxCommits == 3

FileA == "a.py"
FileB == "b.py"
ThirdFiles == {"n.txt", ".tox/t.py", "build/g.py"}

\* A tree gives every file its content (0: the file is absent).  Equal
\* contents stand for contents git finds similar.
Trees == [a : 0..2, b : 0..1, x : 0..1]

Content(tree, f) == IF f = FileA THEN tree.a ELSE IF f = FileB THEN tree.b ELSE tree.x

\* is_src: suffix .py and no path component in ignore_dirs
\* (DefaultIgnoreDirs = {".venv", ".mypy_cache", ".git", "venv", "build"})
IsSrc(f) == f \in {FileA, FileB, ".tox/t.py"}

\* get_python_files: jedi's recurse_find_python_files lists the .py files
\* outside the folders jedi ignores (.tox, .venv, .mypy_cache, venv,
\* __pycache__)
PyFound(f) == f \in {FileA, FileB, "build/g.py"}

\* parse_module: the module of a file of the checked-out tree
ParseModule(tree, f) == [mname |-> f, content |-> Content(tree, f)]

\* `git diff commit_now commit_next --name-status`, with at most one
\* exact rename detected; ren is the rename chosen (<<>>: none).
RenameCandidates(old, new, files) ==
    {<<d, a>> \in files \X files :
        /\ Content(old, d) # 0 /\ Content(new, d) = 0
        /\ Content(old, a) = 0 /\ Content(new, a) # 0
        /\ Content(old, d) = Content(new, a)}

DiffLine(old, new, f, ren) ==
    IF ren # <<>> /\ f = ren[2] THEN <<[tag |-> "R100", p1 |-> ren[1], p2 |-> ren[2]]>>
    ELSE IF ren # <<>> /\ f = ren[1] THEN <<>>
    ELSE IF Content(old, f) = 0 /\ Content(new, f) # 0 THEN <<[tag |-> "A", p1 |-> f, p2 |-> f]>>
    ELSE IF Content(old, f) # 0 /\ Content(new, f) = 0 THEN <<[tag |-> "D", p1 |-> f, p2 |-> f]>>
    ELSE IF Content(old, f) # Content(new, f) THEN <<[tag |-> "M", p1 |-> f, p2 |-> f]>>
    ELSE <<>>

GitDiff(old, new, fileSeq, ren) ==
    Flatten([i \in 1..Len(fileSeq) |-> DiffLine(old, new, fileSeq[i], ren)])

\* mutant: a rename is recorded as the addition of the new path only
PathChangesOfLine_RenameAddsOnly(line) ==
    IF line.tag = "R100"
    THEN IF ~IsSrc(line.p1) \/ ~IsSrc(line.p2) THEN <<>>
         ELSE <<[kind |-> "A", path |-> line.p2]>>
    ELSE IF ~IsSrc(line.p1) THEN <<>>
    ELSE <<[kind |-> line.tag, path |-> line.p1]>>

\* the path changes one line of changed_files contributes
PathChangesOfLine(line) ==
    IF line.tag = "R100"
    THEN IF ~IsSrc(line.p1) \/ ~IsSrc(line.p2) THEN <<>>
         ELSE <<[kind |-> "D", path |-> line.p1], [kind |-> "A", path |-> line.p2]>>
    ELSE IF ~IsSrc(line.p1) THEN <<>>
    ELSE <<[kind |-> line.tag, path |-> line.p1]>>

\* `for line in changed_files`
PathChanges(diff) == Flatten([i \in 1..Len(diff) |-> PathChangesOfLine(diff[i])])

\* `for path_change in path_changes`: updates module_scripts and fills
\* `changed`; a lookup of a missing key raises KeyError.
RECURSIVE ApplyPathChanges(_, _, _, _)
ApplyPathChanges(pcs, scripts, chg, tree) ==
    IF pcs = <<>> THEN [ok |-> TRUE, scripts |-> scripts, changed |-> chg]
    ELSE LET pc == Head(pcs)
             f == pc.path
         IN  IF pc.kind = "A"
             THEN ApplyPathChanges(Tail(pcs),
                      [g \in DOMAIN scripts \cup {f} |->
                          IF g = f THEN ParseModule(tree, f) ELSE scripts[g]],
                      Append(chg, [mname |-> f, kind |-> "A"]), tree)
             ELSE IF f \notin DOMAIN scripts
             THEN [ok |-> FALSE, scripts |-> scripts, changed |-> chg]
             ELSE IF pc.kind = "D"
             THEN ApplyPathChanges(Tail(pcs),
                      [g \in DOMAIN scripts \ {f} |-> scripts[g]],
                      Append(chg, [mname |-> f, kind |-> "D"]), tree)
             ELSE ApplyPathChanges(Tail(pcs),
                      [scripts EXCEPT ![f] = ParseModule(tree, f)],
                      Append(chg, [mname |-> f, kind |-> "M"]), tree)

\* what change_encoder yields for a project change: one item per changed
\* module, tagged with the commit
EncoderOutput(commit, chg) ==
    [i \in 1..Len(chg) |-> [commit |-> commit, mname |-> chg[i].mname, kind |-> chg[i].kind]]

\* mutant: commit_now is not advanced
NextCommitNow_Stuck(commit_now, commit_next) == commit_now

\* `commit_now = commit_next`
NextCommitNow(commit_now, commit_next) == commit_next

\* mutant: the workspace is removed on the normal return only
FinallyCleanup_OnReturnOnly(exists, how) == IF how = "return" THEN FALSE ELSE exists

\* `finally: run_command(["rm", "-rf", str(tempdir)])`
FinallyCleanup(exists, how) == FALSE

\* mutant: the problems collected before the failure are kept
EditsOnException_KeepPartial(results) == results

\* _process_commits `except Exception: ... edits = []`
EditsOnException(results) == <<>>

ReplayFiles == <<FileA, FileB, r_third>>

ReplayInit ==
    /\ \E n \in 1..MaxCommits : r_history \in [1..n -> Trees]
    /\ r_third \in ThirdFiles
    /\ r_pc = "start"
    /\ r_tempdir \in BOOLEAN
    /\ r_created = FALSE
    /\ r_now = 0
    /\ r_next = 0
    /\ module_scripts = <<>>
    /\ r_results = <<>>
    /\ r_diff = <<>>
    /\ r_path_changes = <<>>
    /\ r_checkouts = <<>>
    /\ r_enc_calls = <<>>
    /\ r_failed = 0
    /\ r_cause = ""
    /\ r_edits = <<>>
    /\ NotReplayIdle

\* An exception leaves edits_from_commit_history through its finally
\* clause and is caught by _process_commits.
RaiseFrom(commit, cause) ==
    /\ r_pc' = "raised"
    /\ r_cause' = cause
    /\ r_tempdir' = FinallyCleanup(r_tempdir, "raise")
    /\ r_failed' = commit
    /\ r_edits' = EditsOnException(r_results)

\* `if tempdir.exists(): raise FileExistsError` else `tempdir.mkdir()`
ReplayStart ==
    /\ r_pc = "start"
    /\ IF r_tempdir
       THEN /\ r_pc' = "raised"
            /\ r_cause' = "exists"
            /\ r_edits' = EditsOnException(r_results)
            /\ UNCHANGED <<r_tempdir, r_created>>
       ELSE /\ r_pc' = "created"
            /\ r_tempdir' = TRUE
            /\ r_created' = TRUE
            /\ UNCHANGED <<r_edits, r_cause>>
    /\ UNCHANGED <<r_history, r_third, r_now, r_next, module_scripts, r_results, r_diff,
                   r_path_changes, r_checkouts, r_enc_calls, r_failed>>
    /\ UNCHANGED notReplayVars

\* `cp -r project_dir/.git tempdir`
ReplayCopyGit ==
    /\ r_pc = "created"
    /\ \E ok \in BOOLEAN :
          IF ok THEN r_pc' = "copied" /\ UNCHANGED <<r_tempdir, r_failed, r_cause, r_edits>>
          ELSE RaiseFrom(Len(r_history), "copy")
    /\ UNCHANGED <<r_history, r_third, r_created, r_now, r_next, module_scripts, r_results,
                   r_diff, r_path_changes, r_checkouts, r_enc_calls>>
    /\ UNCHANGED notReplayVars

\* checkout of history[-1] and the parse of the first project state
ReplayFirstCheckout ==
    /\ r_pc = "copied"
    /\ LET n == Len(r_history)
           tree == r_history[n]
           files == {f \in Range(ReplayFiles) : PyFound(f) /\ Content(tree, f) # 0}
       IN  \E outcome \in {"ok", "checkout", "parse"} :
              /\ outcome = "parse" => files # {}
              /\ IF outcome = "ok"
                 THEN /\ r_pc' = "loop"
                      /\ r_now' = n
                      /\ r_next' = n - 1
                      /\ module_scripts' = [f \in files |-> ParseModule(tree, f)]
                      /\ r_checkouts' = Append(r_checkouts, n)
                      /\ UNCHANGED <<r_tempdir, r_failed, r_cause, r_edits>>
                 ELSE /\ RaiseFrom(n, outcome)
                      /\ r_checkouts' = IF outcome = "parse" THEN Append(r_checkouts, n)
                                        ELSE r_checkouts
                      /\ UNCHANGED <<r_now, r_next, module_scripts>>
    /\ UNCHANGED <<r_history, r_third, r_created, r_results, r_diff, r_path_changes,
                   r_enc_calls>>
    /\ UNCHANGED notReplayVars

\* one iteration of `for commit_next in future_commits`
ReplayProcessCommit ==
    /\ r_pc = "loop" /\ r_next >= 1
    /\ LET old == r_history[r_now]
           new == r_history[r_next]
           cands == RenameCandidates(old, new, Range(ReplayFiles))
       IN  \E ren \in (IF cands = {} THEN {<<>>} ELSE cands),
              outcome \in {"ok", "checkout", "parse", "encoder"} :
              LET diff == GitDiff(old, new, ReplayFiles, ren)
                  pcs == PathChanges(diff)
                  res == ApplyPathChanges(pcs, module_scripts, <<>>, new)
              IN  /\ outcome = "parse" => \E i \in 1..Len(pcs) : pcs[i].kind \in {"A", "M"}
                  /\ r_diff' = diff
                  /\ r_path_changes' = IF outcome = "checkout" THEN <<>> ELSE pcs
                  /\ r_checkouts' = IF outcome = "checkout" THEN r_checkouts
                                    ELSE Append(r_checkouts, r_next)
                  /\ IF outcome = "ok" /\ res.ok
                     THEN /\ module_scripts' = res.scripts
                          /\ r_results' = r_results \o EncoderOutput(r_next, res.changed)
                          /\ r_enc_calls' = Append(r_enc_calls,
                                                   [from |-> r_now, to |-> r_next,
                                                    out |-> EncoderOutput(r_next, res.changed)])
                          /\ r_now' = NextCommitNow(r_now, r_next)
                          /\ r_next' = r_next - 1
                          /\ UNCHANGED <<r_pc, r_tempdir, r_failed, r_cause, r_edits>>
                     ELSE /\ RaiseFrom(r_next, IF outcome \in {"checkout", "parse"} THEN outcome
                                               ELSE IF ~res.ok THEN "keyerror" ELSE "encoder")
                          /\ r_enc_calls' = IF outcome = "encoder" /\ res.ok
                                            THEN Append(r_enc_calls,
                                                        [from |-> r_now, to |-> r_next,
                                                         out |-> <<>>])
                                            ELSE r_enc_calls
                          /\ UNCHANGED <<module_scripts, r_results, r_now, r_next>>
    /\ UNCHANGED <<r_history, r_third, r_created>>
    /\ UNCHANGED notReplayVars

\* `return results` through the finally clause; _process_commits keeps it
ReplayReturn ==
    /\ r_pc = "loop" /\ r_next = 0
    /\ r_pc' = "returned"
    /\ r_tempdir' = FinallyCleanup(r_tempdir, "return")
    /\ r_edits' = r_results
    /\ UNCHANGED <<r_history, r_third, r_created, r_now, r_next, module_scripts, r_results,
                   r_diff, r_path_changes, r_checkouts, r_enc_calls, r_failed, r_cause>>
    /\ UNCHANGED notReplayVars

ReplayNext ==
    ReplayStart \/ ReplayCopyGit \/ ReplayFirstCheckout \/ ReplayProcessCommit \/ ReplayReturn

SpecReplay == ReplayInit /\ [][ReplayNext]_vars

\* ------------------------------------------------------------------------
\* C3ProblemGenerator.process_change
\* ------------------------------------------------------------------------
\* Bound of the generator's inputs: changed spans per module (the second
\* changed module holds one span less).
MaxSpans == 2

\* The statement-span line ranges of the sample project's scopes.
LineRanges == {1, 2}

\* Module names are character sequences so that str.startswith can be
\* computed; "ab" has "a" as a proper prefix.
ModA == <<"a">>
ModAB == <<"a", "b">>
ModC == <<"c">>
ChangedModules == {ModA, ModAB}

\* The scopes of a module: a function "f" and a class "C".
ScopePaths == {"f", "C"}

\* ChangedSpan: module and inner path of the innermost parent scope, the
\* line range (an identifier of a (start, end) pair), the Change tag and
\* whether before == after (Modified.from_unchanged).
MkSpan(m, p, l, c, u) == [mod |-> m, path |-> p, lr |-> l, ch |-> c, unchanged |-> u]

\* ChangedSpan._is_func_body: the innermost parent scope is a function.
IsFuncBody(span) == span.path = "f"

\* First line of the header_line_range of a scope ("" is the module scope).
HeaderLine(p) == IF p = "" THEN 0 ELSE IF p = "f" THEN 11 ELSE 12

\* PyDefinition(full_name, start_pos); full_name = f"{module}.{path}"
MkDef(m, p, start) == [full_name |-> m \o <<".">> \o (IF p = "" THEN <<>> ELSE <<p>>),
                       start |-> start]

\* PyDefinition.from_scope
DefFromScope(m, p) == MkDef(m, p, HeaderLine(p))

\* span.parent_scopes: the module scope, then the innermost scope
ParentScopes(span) == <<"", span.path>>

\* The spans a module change may hold: distinct scope paths (the changed
\* map is keyed by path); under an Added/Deleted module every span is
\* Added/Deleted.
ModuleSpanSeqs(m, mc) ==
    {ss \in SeqsUpTo({MkSpan(m, p, l, c, FALSE) :
                          p \in ScopePaths, l \in LineRanges,
                          c \in (IF mc = "M" THEN {"A", "D", "M"} ELSE {mc})},
                     IF m = ModA THEN MaxSpans ELSE MaxSpans - 1) :
        \A i, j \in 1..Len(ss) : i # j => ss[i].path # ss[j].path}

\* JModuleChange: the module change's tag and its changed spans
ModuleChanges(m) ==
    UNION {{[mc |-> mc, spans |-> ss] : ss \in ModuleSpanSeqs(m, mc)} : mc \in {"A", "D", "M"}}

\* module orders returned by post_edit_analysis (a deleted module is absent)
ModuleOrders == {<<ModA, ModAB, ModC>>, <<ModC, ModAB, ModA>>, <<ModC, ModA>>}

\* The line-usage analysis of the sample pre-edit project (line -> set of
\* PyDefinition).  A definition may be reported at its import position or
\* at its real position, so one full name can occur with two positions.
SampleUsages(m, line) ==
    IF m = ModA /\ line = 1 THEN {MkDef(ModA, "f", 11), MkDef(ModAB, "f", 11)}
    ELSE IF m = ModA /\ line = 2 THEN {MkDef(ModA, "f", 3), MkDef(ModA, "C", 12)}
    ELSE IF m = ModA /\ line = 11 THEN {MkDef(ModAB, "C", 12), MkDef(ModA, "C", 2)}
    ELSE IF m = ModA /\ line = 12 THEN {MkDef(ModAB, "C", 12)}
    ELSE IF m = ModAB /\ line = 1 THEN {MkDef(ModA, "f", 11), MkDef(ModA, "f", 3)}
    ELSE IF m = ModAB /\ line = 2 THEN {MkDef(ModC, "f", 1)}
    ELSE IF m = ModAB /\ line = 12 THEN {MkDef(ModAB, "f", 11), MkDef(ModAB, "f", 3)}
    ELSE {}

UsageLines == {0, 1, 2, 3, 11, 12}

\* LineUsageAnalysis.line2usages of module m
LineUsages(m) == [line \in UsageLines |-> SampleUsages(m, line)]

\* get_def_spans: the pre-edit spans of a used definition.  In the sample
\* project every module has a function f (body span 1) and a class C
\* (attribute span 2) whose method f is the same function.
DefSpans(used) ==
    LET n == used.full_name
        m == SubSeq(n, 1, Len(n) - 2)
    IN  IF Len(n) < 3 \/ n[Len(n) - 1] # "." THEN <<>>
        ELSE IF n[Len(n)] = "f" THEN <<MkSpan(m, "f", 1, "M", TRUE)>>
        ELSE <<MkSpan(m, "C", 2, "M", TRUE), MkSpan(m, "f", 1, "M", TRUE)>>

\* key = (cspan.path.module, cspan.line_range)
SpanKey(cspan) == <<cspan.mod, cspan.lr>>

\* all_lines = range(*line_range) | range(*header_line_range)
AllLines(span) == {span.lr, HeaderLine(span.path)}

\* the self-reference test of get_relevant_unchanged
IsSelfRef(pydef, span) ==
    StartsWith(pydef.full_name, span.mod) /\ pydef.start \in AllLines(span)

\* the orders in which a set can be iterated
Orders(S) == {s \in [1..Cardinality(S) -> S] : Range(s) = S}

\* `for l in all_lines: for pydef in line2usages.get(l)`: appends the
\* definitions that are neither self references nor already used.
RECURSIVE CollectDefs(_, _, _)
CollectDefs(acc, cands, span) ==
    IF cands = <<>> THEN acc
    ELSE LET d == Head(cands)
         IN  IF IsSelfRef(d, span) \/ d \in Range(acc)
             THEN CollectDefs(acc, Tail(cands), span)
             ELSE CollectDefs(Append(acc, d), Tail(cands), span)

\* `for used in sorted_defs: for cspan in get_def_spans(used)`
RECURSIVE UniqueSpans(_, _, _)
UniqueSpans(result, seen, cands) ==
    IF cands = <<>> THEN result
    ELSE LET c == Head(cands)
         IN  IF SpanKey(c) \in seen
             THEN UniqueSpans(result, seen, Tail(cands))
             ELSE UniqueSpans(Append(result, c), seen \cup {SpanKey(c)}, Tail(cands))

\* mutant: the changed spans already listed are not excluded
SeenKeys_OnlyThis(this_change, other_changes) == {SpanKey(this_change)}

\* seen, initially: the keys of this_change and of other_changes
SeenKeys(this_change, other_changes) ==
    {SpanKey(this_change)} \cup {SpanKey(c) : c \in Range(other_changes)}

\* get_relevant_unchanged(this_change, other_changes), with the iteration
\* order of the usage sets of the two lines given by o1 and o2.
GetRelevantUnchanged(this_change, other_changes, o1, o2) ==
    IF this_change.ch = "A" THEN <<>>
    ELSE LET parent_defs == [i \in 1..2 |->
                                DefFromScope(this_change.mod, ParentScopes(this_change)[i])]
             sorted0 == Reverse(parent_defs)
             sorted_defs == CollectDefs(sorted0, o1 \o o2, this_change)
             cands == Flatten([i \in 1..Len(sorted_defs) |-> DefSpans(sorted_defs[i])])
         IN  UniqueSpans(<<>>, SeenKeys(this_change, other_changes), cands)

\* mutant: training mode also makes a problem of an Added span
ShouldMkProblem_AddedInTraining(span, training) ==
    \/ span.ch = "M" /\ (training \/ IsFuncBody(span))
    \/ span.ch = "A" /\ training

\* mutant: the function-body restriction of eval mode is dropped
ShouldMkProblem_NoFuncTest(span, training) == span.ch = "M"

\* should_mk_problem
ShouldMkProblem(span, training) ==
    span.ch = "M" /\ (training \/ IsFuncBody(span))

\* mutant: only the spans a problem was emitted for are remembered
NextProcessed_OnlyEmitted(processed, span, emitted) ==
    IF emitted THEN Append(processed, span) ELSE processed

\* what is appended to processed_cspans after a span was considered
NextProcessed(processed, span, emitted) == Append(processed, span)

\* relevant_changes = list(reversed(processed_cspans))
RelevantChanges(processed) == Reverse(processed)

GenInit ==
    /\ is_training \in BOOLEAN
    /\ module_order \in ModuleOrders
    /\ \E D \in SUBSET ChangedModules, ca \in ModuleChanges(ModA), cb \in ModuleChanges(ModAB) :
          changed = [m \in D |-> IF m = ModA THEN ca ELSE cb]
    /\ mod2usages = [m \in {m \in DOMAIN changed : changed[m].mc = "M"} |-> LineUsages(m)]
    /\ g_mi = 1
    /\ g_si = 1
    /\ processed_cspans = <<>>
    /\ problems = <<>>
    /\ g_pc = "loop"
    /\ NotGenIdle

GenCurModule == module_order[g_mi]

\* `if (mchange := pchange.changed.get(m)) is None: continue`
GenSkipModule ==
    /\ g_pc = "loop" /\ g_mi <= Len(module_order)
    /\ GenCurModule \notin DOMAIN changed
    /\ g_mi' = g_mi + 1
    /\ g_si' = 1
    /\ UNCHANGED <<is_training, module_order, changed, processed_cspans, problems,
                   mod2usages, g_pc>>
    /\ UNCHANGED notGenVars

\* one iteration of `for span in mchange.changed.values()`
GenVisitSpan ==
    /\ g_pc = "loop" /\ g_mi <= Len(module_order)
    /\ GenCurModule \in DOMAIN changed
    /\ g_si <= Len(changed[GenCurModule].spans)
    /\ LET span == changed[GenCurModule].spans[g_si]
           emit == ShouldMkProblem(span, is_training)
       IN  /\ IF emit
              THEN /\ span.mod \in DOMAIN mod2usages   \* mod2usages[path.module]
                   /\ LET relevant_changes == RelevantChanges(processed_cspans)
                          lines == AllLines(span)
                          lo == CHOOSE l \in lines : \A l2 \in lines : l <= l2
                          hi == CHOOSE l \in lines : \A l2 \in lines : l >= l2
                      IN  \E o1 \in Orders(mod2usages[span.mod][lo]),
                             o2 \in Orders(mod2usages[span.mod][hi]) :
                            problems' = Append(problems,
                               [span |-> span,
                                relevant_changes |-> relevant_changes,
                                relevant_unchanged |->
                                    GetRelevantUnchanged(span, relevant_changes, o1,
                                                         IF hi = lo THEN <<>> ELSE o2)])
              ELSE problems' = problems
           /\ processed_cspans' = NextProcessed(processed_cspans, span, emit)
    /\ g_si' = g_si + 1
    /\ UNCHANGED <<is_training, module_order, changed, mod2usages, g_mi, g_pc>>
    /\ UNCHANGED notGenVars

\* the inner loop is exhausted: next module
GenNextModule ==
    /\ g_pc = "loop" /\ g_mi <= Len(module_order)
    /\ GenCurModule \in DOMAIN changed
    /\ g_si > Len(changed[GenCurModule].spans)
    /\ g_mi' = g_mi + 1
    /\ g_si' = 1
    /\ UNCHANGED <<is_training, module_order, changed, processed_cspans, problems,
                   mod2usages, g_pc>>
    /\ UNCHANGED notGenVars

\* `return problems`
GenReturn ==
    /\ g_pc = "loop" /\ g_mi > Len(module_order)
    /\ g_pc' = "done"
    /\ UNCHANGED <<is_training, module_order, changed, g_mi, g_si, processed_cspans,
                   problems, mod2usages>>
    /\ UNCHANGED notGenVars

GenNext == GenSkipModule \/ GenVisitSpan \/ GenNextModule \/ GenReturn

SpecGen == GenInit /\ [][GenNext]_vars

\* ------------------------------------------------------------------------
\* Token sequences and the helpers of coeditor/encoding.py
\* ------------------------------------------------------------------------
\* Tokens are strings: the special ids, the extra_id markers and "x" for
\* any ordinary token.
Add_id == "Add"

Del_id == "Del"

Newline_id == "NL"

BOS_id == "BOS"

EOS_id == "EOS"

ExtraIds == <<"e0", "e1", "e2", "e3", "e4", "e5">>

get_extra_id(k) == ExtraIds[k + 1]

is_extra_id(tk) == tk \in Range(ExtraIds)

\* n ordinary tokens
Xs(n) == [i \in 1..n |-> "x"]

Min(a, b) == IF a <= b THEN a ELSE b

Max(a, b) == IF a >= b THEN a ELSE b

\* sum(len(s) for s in ss)
RECURSIVE SumLen(_)
SumLen(ss) == IF ss = <<>> THEN 0 ELSE Len(Head(ss)) + SumLen(Tail(ss))

\* join_list(segs, sep)
RECURSIVE join_list(_, _)
join_list(segs, sep) ==
    IF segs = <<>> THEN <<>>
    ELSE IF Len(segs) = 1 THEN segs[1]
    ELSE segs[1] \o <<sep>> \o join_list(Tail(segs), sep)

\* split_list(lst, sep): always at least one segment
RECURSIVE split_list(_, _)
split_list(lst, sep) ==
    IF \A i \in 1..Len(lst) : lst[i] # sep THEN <<lst>>
    ELSE LET i == CHOOSE j \in 1..Len(lst) :
                      lst[j] = sep /\ \A k \in 1..(j - 1) : lst[k] # sep
         IN  <<SubSeq(lst, 1, i - 1)>> \o split_list(SubSeq(lst, i + 1, Len(lst)), sep)

\* has_change(tks)
has_change(tks) == Add_id \in Range(tks) \/ Del_id \in Range(tks)

\* sec[-limit:] and sec[:limit] as list slices take them
SliceLast(sec, limit) ==
    IF limit > 0 THEN SubSeq(sec, Max(1, Len(sec) - limit + 1), Len(sec))
    ELSE SubSeq(sec, 1 - limit, Len(sec))

SliceFirst(sec, limit) ==
    IF limit >= 0 THEN SubSeq(sec, 1, Min(limit, Len(sec)))
    ELSE SubSeq(sec, 1, Len(sec) + limit)

\* truncate_section(sec, direction, limit, add_bos): a section within the
\* limit is returned as it is; otherwise it is cut at the given side and
\* the token at the cut becomes BOS (left) or EOS (right).
truncate_section(sec, direction, limit, add_bos) ==
    IF Len(sec) <= limit THEN sec
    ELSE IF direction = "Left"
         THEN LET s == SliceLast(sec, limit)
              IN  IF add_bos /\ s # <<>> THEN <<BOS_id>> \o Tail(s) ELSE s
         ELSE LET s == SliceFirst(sec, limit)
              IN  IF add_bos /\ s # <<>>
                  THEN SubSeq(s, 1, Len(s) - 1) \o <<EOS_id>> ELSE s

\* truncate_sections(total_limit, (a, Left), (b, Right), add_bos): each
\* section first gets half of the limit, the unused space goes to the
\* earlier section first.
truncate_sections(total_limit, a, b, add_bos) ==
    LET half == total_limit \div 2
        la0 == Min(Len(a), half)
        lb0 == Min(Len(b), half)
        rem0 == total_limit - la0 - lb0
        inca == Max(0, Min(rem0, Len(a) - la0))
        rem1 == rem0 - inca
        incb == Max(0, Min(rem1, Len(b) - lb0))
    IN  <<truncate_section(a, "Left", la0 + inca, add_bos),
          truncate_section(b, "Right", lb0 + incb, add_bos)>>

\* truncate_output_tks(in_tks, out_tks): keeps the output segments whose
\* extra_id marker occurs in the input.
RECURSIVE OutputSegs(_)
OutputSegs(out_tks) ==
    IF out_tks = <<>> THEN <<>>
    ELSE LET rest == Tail(out_tks)
             n == IF \E j \in 1..Len(rest) : is_extra_id(rest[j])
                  THEN (CHOOSE j \in 1..Len(rest) :
                            is_extra_id(rest[j])
                            /\ \A k \in 1..(j - 1) : ~is_extra_id(rest[k])) - 1
                  ELSE Len(rest)
         IN  <<SubSeq(out_tks, 1, n + 1)>> \o OutputSegs(SubSeq(rest, n + 1, Len(rest)))

truncate_output_tks(in_tks, out_tks) ==
    LET segs == OutputSegs(out_tks)
        keep == [i \in 1..Len(segs) |->
                    IF segs[i][1] \in Range(in_tks) THEN segs[i] ELSE <<>>]
    IN  Flatten(keep)

\* TkDelta.for_input_range((lo, hi))
for_input_range(deltas, lo, hi) == SubSeq(deltas, lo + 1, hi)

\* TkDelta.to_change_tks(input): the input lines with the delta's added
\* lines before them and a Del marker on the deleted ones.
RECURSIVE ChangeLines(_, _)
ChangeLines(lines, deltas) ==
    IF lines = <<>> \/ deltas = <<>> THEN <<>>
    ELSE LET d == Head(deltas)
             adds == SelectSeq(d, LAMBDA act : act[1] = Add_id)
             deleted == \E i \in 1..Len(d) : d[i][1] = Del_id
             line == IF deleted THEN <<Del_id>> \o Head(lines) ELSE Head(lines)
         IN  adds \o <<line>> \o ChangeLines(Tail(lines), Tail(deltas))

to_change_tks(deltas, input) ==
    LET lines == split_list(input, Newline_id)
        last == IF Len(deltas) = Len(lines) + 1
                THEN SelectSeq(deltas[Len(deltas)], LAMBDA act : act[1] = Add_id)
                ELSE <<>>
    IN  join_list(ChangeLines(lines, deltas) \o last, Newline_id)

\* encode_basic(f"\n# offset: {offset}\n")
OffsetTks(offset) == <<Newline_id, "x", ToString(offset), Newline_id>>

\* break_into_chunks(tks, header_f, chunk_size, overlap, right_to_left):
\* consecutive chunks header_f(i) + body of at most chunk_size tokens, each
\* body starting `overlap` tokens before the end of the previous one.
\* headers[i + 1] is header_f(i).  ok = FALSE: "Not making progress".
RECURSIVE BreakFrom(_, _, _, _, _, _, _)
BreakFrom(tks, headers, chunk_size, overlap, right_to_left, i, chunk_id) ==
    IF i >= Len(tks) THEN [ok |-> TRUE, chunks |-> <<>>]
    ELSE LET L == Len(tks)
             header == headers[Min(chunk_id + 1, Len(headers))]
             this_overlap == IF i > 0 THEN overlap ELSE 0
             progress == chunk_size - Len(header) - this_overlap
             start == IF right_to_left THEN Max(0, L - i - progress)
                      ELSE Max(0, i - this_overlap)
             end == IF right_to_left THEN Min(L, L - i + this_overlap)
                    ELSE Min(L, i + progress)
             raw == SubSeq(tks, start + 1, end)
             b1 == IF start > 0 THEN <<BOS_id>> \o Tail(raw) ELSE raw
             body == IF end < L THEN SubSeq(b1, 1, Len(b1) - 1) \o <<EOS_id>> ELSE b1
             rest == BreakFrom(tks, headers, chunk_size, overlap, right_to_left,
                               i + progress, chunk_id + 1)
         IN  IF progress <= 0 THEN [ok |-> FALSE, chunks |-> <<>>]
             ELSE [ok |-> rest.ok, chunks |-> <<header \o body>> \o rest.chunks]

break_into_chunks(tks, headers, chunk_size, overlap, right_to_left) ==
    BreakFrom(tks, headers, chunk_size, overlap, right_to_left, 0, 0)

\* ------------------------------------------------------------------------
\* C3ProblemTokenizer
\* ------------------------------------------------------------------------
\* Bound: the number of lines of the edited span.
MaxLines == 3

\* Token counts of an original line.
LineLens == {0, 2}

\* The tokenizer configurations (the dataclass fields), scaled down.
TokConfigs ==
    [max_ref_tks : {8}, max_query_tks : {4, 10}, max_output_tks : {5},
     max_scope_tks : {3, 6}, max_lines_to_edit : {1, 2}, ref_chunk_overlap : {1},
     max_total_ref_tks : {7, 30}, max_chunks_per_elem : {2}]

\* A parent scope change: the scope's path and change_to_tokens of its header.
MkScope(path, n) == [path |-> path, hdr |-> Xs(n)]

ModScope == MkScope("m", 1)

ParentScopeChoices == {<<ModScope>>, <<ModScope, MkScope("m.f", 5)>>}

\* The deltas of one original line: unchanged, deleted, replaced.
LineDeltas == {<<>>, <<<<Del_id>>>>, <<<<Add_id, "x">>, <<Del_id>>>>}

\* TkDelta.deltas for n original lines: one entry per line, and one more
\* when lines are added after the last one.
DeltasFor(n) ==
    [1..n -> LineDeltas]
        \cup {Append(d, <<<<Add_id, "x">>>>) : d \in [1..n -> LineDeltas]}

\* A referenced ChangedSpan: module, line_range start, parent_scopes and
\* change_to_tokens of its change.
MkRef(mod, lr, scopes, n) ==
    [mod |-> mod, lr |-> lr, parent_scopes |-> scopes, body |-> Xs(n)]

RefLists ==
    {<<>>,
     <<MkRef("u", 1, <<MkScope("u", 1)>>, 2)>>,
     <<MkRef("u", 9, <<MkScope("u", 1), MkScope("u.g", 2)>>, 3),
       MkRef("v", 1, <<MkScope("v", 1)>>, 1),
       MkRef("u", 4, <<MkScope("u", 1), MkScope("u.g", 2)>>, 6)>>}

UnchangedLists == {<<>>, <<MkRef("w", 1, <<MkScope("w", 1)>>, 4)>>}

\* relevant_changes and relevant_unchanged of the sample problems
RelevantChoices ==
    {<<rc, ru>> \in RefLists \X UnchangedLists : Len(rc) <= 1 <=> ru = <<>>}

\* origin_lines of n lines: all short, all long, or long and short in turn
OriginLines(n) ==
    {[i \in 1..n |-> Xs(k)] : k \in LineLens}
        \cup {[i \in 1..n |-> Xs(IF i % 2 = 1 THEN 2 ELSE 0)]}

\* The chunk size of every call of break_into_chunks.
RefChunkSize_Query(cfg) == cfg.max_query_tks

RefChunkSize(cfg) == cfg.max_ref_tks

\* _encode_scope_change
encode_scope_change(cfg, c) == truncate_section(c.hdr, "Left", cfg.max_scope_tks, TRUE)

\* _encode_parent_scopes
encode_parent_scopes(cfg, scope_changes, offset) ==
    LET joined == join_list([i \in 1..Len(scope_changes) |->
                                encode_scope_change(cfg, scope_changes[i])], Newline_id)
        tks == IF offset # 0 THEN joined \o OffsetTks(offset)
               ELSE Append(joined, Newline_id)
    IN  truncate_section(tks, "Left", cfg.max_scope_tks, TRUE)

\* the headers lambda i: self._encode_parent_scopes(scopes, first + step * i)
HeadersOf(cfg, scopes, first, step, n) ==
    [i \in 1..n |-> encode_parent_scopes(cfg, scopes, first + step * (i - 1))]

\* _inline_some_context
inline_some_context(cfg, input, above_ctx, below_ctx, size_limit) ==
    LET extra_space == size_limit - Len(input)
    IN  IF (above_ctx # <<>> \/ below_ctx # <<>>) /\ extra_space > 0
        THEN LET tr == truncate_sections(extra_space, above_ctx, below_ctx, TRUE)
                 above_left == Len(above_ctx) - Len(tr[1])
                 below_left == Len(below_ctx) - Len(tr[2])
             IN  [input |-> tr[1] \o input \o tr[2],
                  above |-> IF above_left > 0
                            THEN truncate_section(above_ctx, "Right",
                                     above_left + cfg.ref_chunk_overlap, TRUE)
                            ELSE <<>>,
                  below |-> IF below_left > 0
                            THEN truncate_section(below_ctx, "Left",
                                     below_left + cfg.ref_chunk_overlap, TRUE)
                            ELSE <<>>]
        ELSE [input |-> input, above |-> above_ctx, below |-> below_ctx]

\* groupby(changes, module): the modules in order of first occurrence
RECURSIVE ModulesOf(_)
ModulesOf(changes) ==
    IF changes = <<>> THEN <<>>
    ELSE LET rest == ModulesOf(SubSeq(changes, 1, Len(changes) - 1))
             m == changes[Len(changes)].mod
         IN  IF m \in Range(rest) THEN rest ELSE Append(rest, m)

\* change_group.sort(key=lambda c: c.line_range[0])
ChangeGroup(changes, m) ==
    SortSeq(SelectSeq(changes, LAMBDA c : c.mod = m), LAMBDA a, b : a.lr < b.lr)

\* the scopes of c that are not a prefix shared with last_scope
ScopeDiff(c, last_scope) ==
    LET idx == {i \in 1..Len(c.parent_scopes) :
                   i > Len(last_scope) \/ c.parent_scopes[i].path # last_scope[i].path}
        pick == SelectSeq([i \in 1..Len(c.parent_scopes) |-> i], LAMBDA i : i \in idx)
    IN  [k \in 1..Len(pick) |-> c.parent_scopes[pick[k]]]

\* file_tks of one change group
RECURSIVE FileTks(_, _, _)
FileTks(cfg, group, last_scope) ==
    IF group = <<>> THEN <<>>
    ELSE LET c == Head(group)
             scope_diff == ScopeDiff(c, last_scope)
             header_tks == IF scope_diff # <<>>
                           THEN encode_parent_scopes(cfg, scope_diff, 0) ELSE <<>>
         IN  header_tks \o c.body \o <<Newline_id, Newline_id>>
                 \o FileTks(cfg, Tail(group), c.parent_scopes)

\* _group_encode_changed_refs: [ok, chunks]
RECURSIVE GroupChunks(_, _, _)
GroupChunks(cfg, changes, mods) ==
    IF mods = <<>> THEN [ok |-> TRUE, chunks |-> <<>>]
    ELSE LET group == ChangeGroup(changes, Head(mods))
             mod_change == SubSeq(group[1].parent_scopes, 1, 1)
             file_tks == FileTks(cfg, group, mod_change)
             mod_chunks == break_into_chunks(file_tks,
                               HeadersOf(cfg, mod_change, 0, 1, Len(file_tks) + 1),
                               RefChunkSize(cfg), cfg.ref_chunk_overlap, FALSE)
             rest == GroupChunks(cfg, changes, Tail(mods))
         IN  [ok |-> mod_chunks.ok /\ rest.ok, chunks |-> mod_chunks.chunks \o rest.chunks]

group_encode_changed_refs(cfg, changes) == GroupChunks(cfg, changes, ModulesOf(changes))

\* (f"{prefix} {i}", chunk) for i, chunk in enumerate(chunks)
Named(prefix, chunks) ==
    [i \in 1..Len(chunks) |-> [name |-> <<prefix, i - 1>>, tks |-> chunks[i]]]

\* the test of the reference budget loop
KeepRef_NoLookahead(size_sum, chunk, cfg) == size_sum <= cfg.max_total_ref_tks

KeepRef(size_sum, chunk, cfg) == size_sum + Len(chunk) <= cfg.max_total_ref_tks

\* for (name, chunk) in all_refs: ... kept_refs.append((name, chunk))
RECURSIVE KeptRefs(_, _, _)
KeptRefs(all_refs, size_sum, cfg) ==
    IF all_refs = <<>> THEN <<>>
    ELSE LET r == Head(all_refs)
         IN  IF KeepRef(size_sum, r.tks, cfg)
             THEN <<r>> \o KeptRefs(Tail(all_refs), size_sum + Len(r.tks), cfg)
             ELSE KeptRefs(Tail(all_refs), size_sum, cfg)

\* input_limit = self.max_query_tks - len(scope_tks)
InputLimit(cfg, stks) == cfg.max_query_tks - Len(stks)

\* get_problem(chunk_input, chunk_output) at line l: [ok, problem]
get_problem(cfg, prob, named_refs, stks, prev_tks, ci, co, l, finished) ==
    LET input_limit == InputLimit(cfg, stks)
        below0 == join_list(SubSeq(prob.origin_lines, l + 1, Len(prob.origin_lines)),
                            Newline_id)
        inl == inline_some_context(cfg, ci, prev_tks, below0, input_limit)
        c_in == truncate_section(inl.input, "Right", input_limit, TRUE)
        c_out == truncate_section(truncate_output_tks(c_in, co), "Right",
                                  cfg.max_output_tks, FALSE)
        above == break_into_chunks(inl.above,
                     HeadersOf(cfg, prob.parent_scopes, -1, -1, Len(inl.above) + 1),
                     RefChunkSize(cfg), cfg.ref_chunk_overlap, TRUE)
        below == IF finished THEN [ok |-> TRUE, chunks |-> <<>>]
                 ELSE break_into_chunks(inl.below,
                          HeadersOf(cfg, prob.parent_scopes, 1, 1, Len(inl.below) + 1),
                          RefChunkSize(cfg), cfg.ref_chunk_overlap, FALSE)
        all_refs == Named("above chunk", above.chunks)
                        \o Named("below chunk", below.chunks) \o named_refs
    IN  [ok |-> above.ok /\ below.ok,
         problem |-> [input_tks |-> stks \o c_in,
                      output_tks |-> c_out,
                      named_references |-> KeptRefs(all_refs, 0, cfg),
                      all_refs |-> all_refs]]

\* the state of the line walk after line l is added to the chunk
\* (the tail of the loop body)
AddLine(prob, ci, co, lines, l) ==
    LET line_change == join_list(prob.deltas[l + 1], Newline_id)
        ci1 == Append(ci, get_extra_id(lines))
        ci2 == IF l < Len(prob.origin_lines)
               THEN ci1 \o prob.origin_lines[l + 1] \o <<Newline_id>> ELSE ci1
        co1 == Append(co, get_extra_id(lines)) \o line_change
        co2 == IF line_change # <<>> /\ line_change[Len(line_change)] # Del_id
               THEN Append(co1, Newline_id) ELSE co1
    IN  [chunk_input |-> ci2, chunk_output |-> co2, chunk_lines |-> lines + 1]

\* the chunk closing test without the line cap
ClosesChunk_NoLineCap(cfg, prob, stks, ci, lines, l) ==
    LET input_growth == IF l < Len(prob.origin_lines)
                        THEN Len(prob.origin_lines[l + 1]) + 2 ELSE 1
    IN  \/ l = Len(prob.deltas)
        \/ Len(ci) + input_growth > InputLimit(cfg, stks)

\* the test that closes the current chunk before line l
ClosesChunk(cfg, prob, stks, ci, lines, l) ==
    LET input_growth == IF l < Len(prob.origin_lines)
                        THEN Len(prob.origin_lines[l + 1]) + 2 ELSE 1
    IN  \/ l = Len(prob.deltas)
        \/ lines >= cfg.max_lines_to_edit
        \/ Len(ci) + input_growth > InputLimit(cfg, stks)

\* a closed chunk is emitted whatever it holds
EmitsOnClose_Always(co) == TRUE

\* if has_change(chunk_output): the closed chunk becomes a record
EmitsOnClose(co) == has_change(co)

\* the walk never stops early
ReachedMaxChunks_Never(cfg, probs) == FALSE

\* if len(problems) >= self.max_chunks_per_elem: break
ReachedMaxChunks(cfg, probs) == Len(probs) >= cfg.max_chunks_per_elem

TokInit ==
    /\ tk_cfg \in TokConfigs
    /\ \E n \in 1..MaxLines, scopes \in ParentScopeChoices, rel \in RelevantChoices :
          \E lines \in OriginLines(n), deltas \in DeltasFor(n) :
              tk_problem = [origin_lines |-> lines, deltas |-> deltas,
                            parent_scopes |-> scopes,
                            relevant_changes |-> rel[1], relevant_unchanged |-> rel[2]]
    /\ tk_pc = "start"
    /\ named_references = <<>>
    /\ scope_tks = <<>>
    /\ tk_l = 0
    /\ chunk_input = <<>>
    /\ chunk_output = <<>>
    /\ chunk_lines = 0
    /\ chunk_start_l = 0
    /\ prev_change_tks = <<>>
    /\ tk_problems = <<>>
    /\ NotTokIdle

\* tokenize_problem up to the line walk: the named references and scope_tks
TokStart ==
    /\ tk_pc = "start"
    /\ LET ch == group_encode_changed_refs(tk_cfg, tk_problem.relevant_changes)
           un == group_encode_changed_refs(tk_cfg, tk_problem.relevant_unchanged)
       IN  IF ch.ok /\ un.ok
           THEN /\ named_references' = Named("changed ref", ch.chunks)
                                           \o Named("unchanged ref", un.chunks)
                /\ scope_tks' = encode_parent_scopes(tk_cfg, tk_problem.parent_scopes, 0)
                /\ tk_pc' = "walk"
           ELSE /\ tk_pc' = "raised"
                /\ UNCHANGED <<named_references, scope_tks>>
    /\ UNCHANGED <<tk_cfg, tk_problem, tk_l, chunk_input, chunk_output, chunk_lines,
                   chunk_start_l, prev_change_tks, tk_problems>>
    /\ UNCHANGED notTokVars

\* one iteration of the line walk that keeps the chunk open
TokAddLine ==
    /\ tk_pc = "walk"
    /\ ~ClosesChunk(tk_cfg, tk_problem, scope_tks, chunk_input, chunk_lines, tk_l)
    /\ LET a == AddLine(tk_problem, chunk_input, chunk_output, chunk_lines, tk_l)
       IN  /\ chunk_input' = a.chunk_input
           /\ chunk_output' = a.chunk_output
           /\ chunk_lines' = a.chunk_lines
    /\ tk_l' = tk_l + 1
    /\ UNCHANGED <<tk_cfg, tk_problem, tk_pc, named_references, scope_tks,
                   chunk_start_l, prev_change_tks, tk_problems>>
    /\ UNCHANGED notTokVars

\* one iteration that closes the chunk before line l and opens the next
TokCloseChunk ==
    /\ tk_pc = "walk"
    /\ tk_l < Len(tk_problem.deltas)
    /\ ClosesChunk(tk_cfg, tk_problem, scope_tks, chunk_input, chunk_lines, tk_l)
    /\ LET emit == EmitsOnClose(chunk_output)
           gp == get_problem(tk_cfg, tk_problem, named_references, scope_tks,
                             prev_change_tks, chunk_input, chunk_output, tk_l, FALSE)
           chunk_main_input == join_list(SubSeq(tk_problem.origin_lines,
                                                chunk_start_l + 1, tk_l), Newline_id)
           chunk_main_delta == for_input_range(tk_problem.deltas, chunk_start_l, tk_l)
           chunk_main_change == to_change_tks(chunk_main_delta, chunk_main_input)
           a == AddLine(tk_problem, <<>>, <<>>, 0, tk_l)
       IN  IF emit /\ ~gp.ok
           THEN /\ tk_pc' = "raised"
                /\ UNCHANGED <<tk_l, chunk_input, chunk_output, chunk_lines,
                               chunk_start_l, prev_change_tks, tk_problems>>
           ELSE /\ tk_problems' = IF emit THEN Append(tk_problems, gp.problem)
                                  ELSE tk_problems
                /\ IF emit /\ ReachedMaxChunks(tk_cfg, tk_problems')
                   THEN /\ tk_pc' = "done"
                        /\ UNCHANGED <<tk_l, chunk_input, chunk_output, chunk_lines,
                                       chunk_start_l, prev_change_tks>>
                   ELSE /\ prev_change_tks' = (prev_change_tks \o chunk_main_change)
                                                  \o <<Newline_id>>
                        /\ chunk_start_l' = tk_l
                        /\ chunk_input' = a.chunk_input
                        /\ chunk_output' = a.chunk_output
                        /\ chunk_lines' = a.chunk_lines
                        /\ tk_l' = tk_l + 1
                        /\ UNCHANGED tk_pc
    /\ UNCHANGED <<tk_cfg, tk_problem, named_references, scope_tks>>
    /\ UNCHANGED notTokVars

\* the last iteration (finished): the last chunk is closed and the
\* problems are returned
TokFinish ==
    /\ tk_pc = "walk"
    /\ tk_l = Len(tk_problem.deltas)
    /\ LET emit == EmitsOnClose(chunk_output)
           gp == get_problem(tk_cfg, tk_problem, named_references, scope_tks,
                             prev_change_tks, chunk_input, chunk_output, tk_l, TRUE)
       IN  IF emit /\ ~gp.ok
           THEN tk_pc' = "raised" /\ UNCHANGED tk_problems
           ELSE /\ tk_pc' = "done"
                /\ tk_problems' = IF emit THEN Append(tk_problems, gp.problem)
                                  ELSE tk_problems
    /\ UNCHANGED <<tk_cfg, tk_problem, named_references, scope_tks, tk_l, chunk_input,
                   chunk_output, chunk_lines, chunk_start_l, prev_change_tks>>
    /\ UNCHANGED notTokVars

TokNext == TokStart \/ TokAddLine \/ TokCloseChunk \/ TokFinish

SpecTok == TokInit /\ [][TokNext]_vars

\* ------------------------------------------------------------------------
\* The line delta engine (coeditor/encoding.py): change_to_line_diffs,
\* line_diffs_to_original_delta, StrDelta.apply_to_input and
\* StrDelta.delta_for_input_range
\* ------------------------------------------------------------------------
\* Bound: the number of lines of a text blob.
MaxBlobLines == 3

\* The lines of the sample blobs ("" is an empty line).
BlobLines == {"", "a", "b"}

\* text.split("\n"): a blob is its sequence of lines, never empty
Blobs(n) == UNION {[1..k -> BlobLines] : k \in 1..n}

\* length of the longest common subsequence of two line sequences
RECURSIVE LcsLen(_, _)
LcsLen(a, b) ==
    IF a = <<>> \/ b = <<>> THEN 0
    ELSE IF Head(a) = Head(b) THEN 1 + LcsLen(Tail(a), Tail(b))
    ELSE LET x == LcsLen(Tail(a), b)
             y == LcsLen(a, Tail(b))
         IN  IF x >= y THEN x ELSE y

\* compute_line_diffs(before, after): the lines of both, tagged " " (kept),
\* "-" (only before) or "+" (only after), along a longest common subsequence
RECURSIVE compute_line_diffs(_, _)
compute_line_diffs(before, after) ==
    IF before = <<>> THEN [i \in 1..Len(after) |-> [tag |-> "+", line |-> after[i]]]
    ELSE IF after = <<>> THEN [i \in 1..Len(before) |-> [tag |-> "-", line |-> before[i]]]
    ELSE IF Head(before) = Head(after)
         THEN <<[tag |-> " ", line |-> Head(before)]>>
                  \o compute_line_diffs(Tail(before), Tail(after))
    ELSE IF LcsLen(Tail(before), after) >= LcsLen(before, Tail(after))
         THEN <<[tag |-> "-", line |-> Head(before)]>>
                  \o compute_line_diffs(Tail(before), after)
         ELSE <<[tag |-> "+", line |-> Head(after)]>>
                  \o compute_line_diffs(before, Tail(after))

\* change_to_line_diffs(Modified(before, after))
change_to_line_diffs(before, after) ==
    IF before = after THEN [i \in 1..Len(before) |-> [tag |-> " ", line |-> before[i]]]
    ELSE compute_line_diffs(before, after)

\* the original lines of a diff
OriginalOf(diffs) ==
    LET old == SelectSeq(diffs, LAMBDA d : d.tag # "+")
    IN  [i \in 1..Len(old) |-> old[i].line]

\* the delta of a diff: entry i + 1 holds the actions of input line i, the
\* lines added before it and then its deletion; the entry after the last
\* input line holds the lines added at the end (<<>>: no action)
RECURSIVE DeltaOf(_, _)
DeltaOf(diffs, pending) ==
    IF diffs = <<>> THEN <<pending>>
    ELSE LET d == Head(diffs)
         IN  IF d.tag = "+"
             THEN DeltaOf(Tail(diffs), Append(pending, [act |-> "+", line |-> d.line]))
             ELSE <<IF d.tag = "-" THEN Append(pending, [act |-> "-", line |-> d.line])
                    ELSE pending>>
                      \o DeltaOf(Tail(diffs), <<>>)

\* line_diffs_to_original_delta(diffs): [original, delta]
line_diffs_to_original_delta(diffs) ==
    [original |-> OriginalOf(diffs), delta |-> DeltaOf(diffs, <<>>)]

\* the lines an entry of a delta adds
AddedLines(entry) ==
    LET adds == SelectSeq(entry, LAMBDA x : x.act = "+")
    IN  [i \in 1..Len(adds) |-> adds[i].line]

\* StrDelta.apply_to_input(input): at each input line the added lines, then
\* the line itself unless it is deleted; then the lines added at the end
RECURSIVE ApplyFrom(_, _, _)
ApplyFrom(lines, delta, i) ==
    IF i > Len(lines) THEN IF i <= Len(delta) THEN AddedLines(delta[i]) ELSE <<>>
    ELSE LET entry == IF i <= Len(delta) THEN delta[i] ELSE <<>>
             deleted == \E k \in 1..Len(entry) : entry[k].act = "-"
         IN  AddedLines(entry) \o (IF deleted THEN <<>> ELSE <<lines[i]>>)
                 \o ApplyFrom(lines, delta, i + 1)

apply_to_input_DropTrailing(lines, delta) ==
    ApplyFrom(lines, SubSeq(delta, 1, Len(lines)), 1)

apply_to_input(lines, delta) == ApplyFrom(lines, delta, 1)

\* StrDelta.delta_for_input_range((lo, hi)): the entries of the input lines
\* lo .. hi - 1
delta_for_input_range(delta, lo, hi) == SubSeq(delta, lo + 1, hi)

\* bool(delta): some entry holds an action
DeltaNonEmpty(delta) == \E i \in 1..Len(delta) : delta[i] # <<>>

DeltaInit ==
    /\ d_before \in Blobs(MaxBlobLines)
    /\ d_after \in Blobs(MaxBlobLines)
    /\ d_pc = "start"
    /\ d_delta = <<>>
    /\ d_applied = <<>>
    /\ NotDeltaIdle

\* original, delta = line_diffs_to_original_delta(change_to_line_diffs(...))
DeltaCompute ==
    /\ d_pc = "start"
    /\ d_delta' = line_diffs_to_original_delta(change_to_line_diffs(d_before, d_after))
    /\ d_pc' = "computed"
    /\ UNCHANGED <<d_before, d_after, d_applied>>
    /\ UNCHANGED notDeltaVars

\* delta.apply_to_input(original)
DeltaApply ==
    /\ d_pc = "computed"
    /\ d_applied' = apply_to_input(d_before, d_delta.delta)
    /\ d_pc' = "applied"
    /\ UNCHANGED <<d_before, d_after, d_delta>>
    /\ UNCHANGED notDeltaVars

DeltaNext == DeltaCompute \/ DeltaApply

SpecDelta == DeltaInit /\ [][DeltaNext]_vars

\* ------------------------------------------------------------------------
\* JediUsageAnalyzer.get_line_usages (ctx_change_encoder.py)
\* ------------------------------------------------------------------------
\* Bound: the number of used names of the analysed module.
MaxNames == 3

\* str_limit = 40
str_limit == 40

\* The lines of the analysed module that hold names.
NameLines == {1, 2}

\* repr(e) of the exceptions of the resolver: a short text and two
\* longer texts that differ only after the first str_limit characters.
ShortErr == <<"K", "e", "y">>
LongErrA == Xs(str_limit) \o <<"a">>
LongErrB == Xs(str_limit) \o <<"b", "b">>

\* What resolving one name does: whether a definition is added to the
\* line's usages, and the repr of the exception raised (<<>>: none; an
\* exception may come after a definition was added).
Resolutions ==
    {[found |-> TRUE, err |-> <<>>], [found |-> FALSE, err |-> <<>>],
     [found |-> TRUE, err |-> ShortErr],
     [found |-> FALSE, err |-> LongErrA], [found |-> FALSE, err |-> LongErrB]}

\* A name of the module: its line, its column and its resolution.
UsedNames(n) ==
    {[i \in 1..n |-> [line |-> ls[i], col |-> i, res |-> rs[i]]] :
        ls \in [1..n -> NameLines], rs \in [1..n -> Resolutions]}

\* self.error_counts when the call starts (the analyzer is reused
\* between calls)
EarlierCounts == {<<>>, (ShortErr :> 2)}

\* all_names.sort(key=lambda x: x.start_pos); the columns of the names
\* of one line follow their order in the list
SortByStartPos(names) ==
    Flatten([l \in 1..Max(1, Cardinality(NameLines)) |->
                SelectSeq(names, LAMBDA nm : nm.line = l)])

\* err_text = repr(e), cut to str_limit characters and "..."
ErrText(e) ==
    IF Len(e) > str_limit THEN SubSeq(e, 1, str_limit) \o <<".", ".", ".">> ELSE e

\* mutant: the count of an error text restarts at one
add_error_Restart(counts, err_text) ==
    [k \in DOMAIN counts \cup {err_text} |->
        IF k = err_text THEN 1 ELSE counts[k]]

\* add_error
add_error(counts, err_text) ==
    [k \in DOMAIN counts \cup {err_text} |->
        IF k = err_text
        THEN (IF k \in DOMAIN counts THEN counts[k] ELSE 0) + 1
        ELSE counts[k]]

\* usages = line2usages.setdefault(line, set()), then the definitions
\* found are added to it
AddUsages(l2u, line, found) ==
    [l \in DOMAIN l2u \cup {line} |->
        (IF l \in DOMAIN l2u THEN l2u[l] ELSE {})
            \cup (IF l = line THEN found ELSE {})]

\* PyDefinition.from_name of the definition a name resolves to
DefOf(nm) == <<nm.line, nm.col>>

UsageInit ==
    /\ \E n \in 0..MaxNames : u_used_names \in UsedNames(n)
    /\ lines_to_analyze \in SUBSET NameLines
    /\ all_names = <<>>
    /\ u_i = 0
    /\ line2usages = <<>>
    /\ error_counts \in EarlierCounts
    /\ u_counts0 = error_counts
    /\ u_pc = "start"
    /\ u_result = <<>>
    /\ NotUsageIdle

UsageCurName == all_names[u_i]

\* the used names are collected and sorted
UsageStart ==
    /\ u_pc = "start"
    /\ all_names' = SortByStartPos(u_used_names)
    /\ u_i' = 1
    /\ u_pc' = "loop"
    /\ UNCHANGED <<u_used_names, lines_to_analyze, line2usages, error_counts,
                   u_counts0, u_result>>
    /\ UNCHANGED notUsageVars

\* `if line not in lines_to_analyze: continue`
UsageSkipName ==
    /\ u_pc = "loop" /\ u_i <= Len(all_names)
    /\ UsageCurName.line \notin lines_to_analyze
    /\ u_i' = u_i + 1
    /\ UNCHANGED <<u_used_names, lines_to_analyze, all_names, line2usages,
                   error_counts, u_counts0, u_pc, u_result>>
    /\ UNCHANGED notUsageVars

\* the try block ends without an exception
UsageResolve ==
    /\ u_pc = "loop" /\ u_i <= Len(all_names)
    /\ UsageCurName.line \in lines_to_analyze
    /\ UsageCurName.res.err = <<>>
    /\ line2usages' = AddUsages(line2usages, UsageCurName.line,
                                IF UsageCurName.res.found
                                THEN {DefOf(UsageCurName)} ELSE {})
    /\ u_i' = u_i + 1
    /\ UNCHANGED <<u_used_names, lines_to_analyze, all_names, error_counts,
                   u_counts0, u_pc, u_result>>
    /\ UNCHANGED notUsageVars

\* the try block raises: `except Exception as e`
UsageFail ==
    /\ u_pc = "loop" /\ u_i <= Len(all_names)
    /\ UsageCurName.line \in lines_to_analyze
    /\ UsageCurName.res.err # <<>>
    /\ line2usages' = AddUsages(line2usages, UsageCurName.line,
                                IF UsageCurName.res.found
                                THEN {DefOf(UsageCurName)} ELSE {})
    /\ error_counts' = add_error(error_counts, ErrText(UsageCurName.res.err))
    /\ u_i' = u_i + 1
    /\ UNCHANGED <<u_used_names, lines_to_analyze, all_names, u_counts0, u_pc,
                   u_result>>
    /\ UNCHANGED notUsageVars

\* return LineUsageAnalysis(line2usages)
UsageReturn ==
    /\ u_pc = "loop" /\ u_i > Len(all_names)
    /\ u_result' = line2usages
    /\ u_pc' = "done"
    /\ UNCHANGED <<u_used_names, lines_to_analyze, all_names, u_i, line2usages,
                   error_counts, u_counts0>>
    /\ UNCHANGED notUsageVars

UsageNext ==
    UsageStart \/ UsageSkipName \/ UsageResolve \/ UsageFail \/ UsageReturn

SpecUsage == UsageInit /\ [][UsageNext]_vars

\* ------------------------------------------------------------------------
\* C3ProblemGenerator.post_edit_analysis (ctx_change_encoder.py) and
\* sort_modules_by_imports (spot/static_analysis.py)
\* ------------------------------------------------------------------------
\* Bound: the number of imported names of one module.
MaxImports == 2

\* The project's modules, in the order of modules.items() (and of their
\* names); "os" is a module outside the project.
ModSeq == <<"a", "b", "c">>
ProjectModules == Range(ModSeq)
OutsideModule == "os"

\* An imported name: the module that defines it and whether _fast_goto
\* resolves it or raises.
ImportedNames(m) ==
    {[src |-> s, raises |-> r] :
        s \in (ProjectModules \ {m}) \cup {OutsideModule}, r \in BOOLEAN}

ImportChoices(m) ==
    {ns \in SUBSET ImportedNames(m) : Cardinality(ns) <= MaxImports}

\* mutant: no dependency is recorded
DepsOfNames_None(names) == {}

\* deps of one module: source.module_name of every source of every name
\* whose resolution did not raise
DepsOfNames(names) == {n.src : n \in {x \in names : ~x.raises}}

\* the names of one module whose resolution raises
RaisingNames(names) == {x \in names : x.raises}

RECURSIVE VisitModule(_, _, _)
RECURSIVE VisitModules(_, _, _)
\* depth-first visit of m: its dependencies first, then m; a module
\* already seen (first-seen-wins on a cycle) or outside the project is
\* passed over
VisitModule(m, st, deps) ==
    IF m \in st.visited \/ m \notin DOMAIN deps THEN st
    ELSE LET st1 == [st EXCEPT !.visited = @ \cup {m}]
             st2 == VisitModules(SelectSeq(ModSeq, LAMBDA d : d \in deps[m]) \o
                                     (IF OutsideModule \in deps[m]
                                      THEN <<OutsideModule>> ELSE <<>>),
                                 st1, deps)
         IN  [st2 EXCEPT !.sorted = Append(@, m)]

VisitModules(ms, st, deps) ==
    IF ms = <<>> THEN st
    ELSE VisitModules(Tail(ms), VisitModule(Head(ms), st, deps), deps)

\* sort_modules_by_imports: a deterministic topological sort, modules
\* taken in name order
sort_modules_by_imports(deps) ==
    VisitModules(SelectSeq(ModSeq, LAMBDA m : m \in DOMAIN deps),
                 [visited |-> {}, sorted |-> <<>>], deps).sorted

OrderInit ==
    /\ \E ia \in ImportChoices("a"), ib \in ImportChoices("b"), ic \in ImportChoices("c") :
          o_imports = [m \in ProjectModules |->
                          IF m = "a" THEN ia ELSE IF m = "b" THEN ib ELSE ic]
    /\ o_changed \in {ProjectModules, {"a", "c"}}
    /\ o_mi = 1
    /\ module_deps = <<>>
    /\ o_errors = 0
    /\ o_order = <<>>
    /\ o_vi = 0
    /\ o_visited = <<>>
    /\ o_pc = "analyze"
    /\ NotOrderIdle

\* one iteration of `for rel_path, module in modules.items()`
OrderAnalyzeModule ==
    /\ o_pc = "analyze" /\ o_mi <= Len(ModSeq)
    /\ LET mname == ModSeq[o_mi]
       IN  /\ module_deps' = [k \in DOMAIN module_deps \cup {mname} |->
                                 IF k = mname THEN DepsOfNames(o_imports[mname])
                                 ELSE module_deps[k]]
           /\ o_errors' = o_errors + Cardinality(RaisingNames(o_imports[mname]))
    /\ o_mi' = o_mi + 1
    /\ UNCHANGED <<o_imports, o_changed, o_order, o_vi, o_visited, o_pc>>
    /\ UNCHANGED notOrderVars

\* module_order = sort_modules_by_imports(module_deps); return module_order
OrderSort ==
    /\ o_pc = "analyze" /\ o_mi > Len(ModSeq)
    /\ o_order' = sort_modules_by_imports(module_deps)
    /\ o_vi' = 1
    /\ o_pc' = "visit"
    /\ UNCHANGED <<o_imports, o_changed, o_mi, module_deps, o_errors, o_visited>>
    /\ UNCHANGED notOrderVars

\* process_change: `for m in module_order`, a module without a change
\* is passed over
OrderVisit ==
    /\ o_pc = "visit" /\ o_vi <= Len(o_order)
    /\ o_visited' = IF o_order[o_vi] \in o_changed
                    THEN Append(o_visited, o_order[o_vi]) ELSE o_visited
    /\ o_vi' = o_vi + 1
    /\ UNCHANGED <<o_imports, o_changed, o_mi, module_deps, o_errors, o_order, o_pc>>
    /\ UNCHANGED notOrderVars

OrderDone ==
    /\ o_pc = "visit" /\ o_vi > Len(o_order)
    /\ o_pc' = "done"
    /\ UNCHANGED <<o_imports, o_changed, o_mi, module_deps, o_errors, o_order,
                   o_vi, o_visited>>
    /\ UNCHANGED notOrderVars

OrderNext == OrderAnalyzeModule \/ OrderSort \/ OrderVisit \/ OrderDone

SpecOrder == OrderInit /\ [][OrderNext]_vars

\* ------------------------------------------------------------------------
\* The identity-keyed scope cache of C3ProblemTokenizer
\* (_encode_scope_change, _encode_parent_scopes)
\* ------------------------------------------------------------------------
\* Bounds: maxsize of the FIFO cache (1000 in the code), the scope changes
\* one problem makes the tokenizer encode, the problems one tokenizer is
\* given and the calls of tokenize_problem on one problem.
MaxCacheSize == 2
MaxObjects == 2
MaxProblems == 2
MaxCalls == 2

\* id(c): the addresses objects are allocated at; the address of a
\* released object is given to a later one.
ObjIds == {"0x10", "0x20", "0x30"}

\* The Change[ChangeScope] values: headers of different token counts.
ScopeValues == {MkScope("m.f", 5), MkScope("m.g", 1)}

\* The tokenizer's configuration.
CacheCfg == CHOOSE cfg \in TokConfigs : cfg.max_scope_tks = 3 /\ cfg.max_query_tks = 10
                                            /\ cfg.max_lines_to_edit = 2
                                            /\ cfg.max_total_ref_tks = 30

\* The scope changes of one problem, in the order tokenize_problem encodes
\* them (those of the references, then the edited span's own); two live
\* objects at one address are one object.
CacheProblems ==
    {p \in UNION {[1..n -> [id : ObjIds, scope : ScopeValues]] : n \in 1..MaxObjects} :
        \A i, j \in 1..Len(p) : p[i].id = p[j].id => p[i] = p[j]}

\* key in self._scope_cache
CacheHas(cache, key) == \E i \in 1..Len(cache) : cache[i].key = key

\* self._scope_cache[key]
CacheGet(cache, key) == cache[CHOOSE i \in 1..Len(cache) : cache[i].key = key].tks

\* self._scope_cache[key] = tks on a FIFOCache: when the cache is full the
\* entry inserted first is dropped
CacheSet(cache, key, tks) ==
    Append(IF Len(cache) >= MaxCacheSize THEN Tail(cache) ELSE cache,
           [key |-> key, tks |-> tks])

\* _encode_scope_change(c) on the cache: [tks, cache]
cached_encode_scope_change(cache, c) ==
    IF CacheHas(cache, c.id)
    THEN [tks |-> CacheGet(cache, c.id), cache |-> cache]
    ELSE LET tks == encode_scope_change(CacheCfg, c.scope)
         IN  [tks |-> tks, cache |-> CacheSet(cache, c.id, tks)]

\* the scope changes of a problem encoded one after the other:
\* [out, cache], out the token sequences in order
RECURSIVE EncodeScopes(_, _)
EncodeScopes(objs, cache) ==
    IF objs = <<>> THEN [out |-> <<>>, cache |-> cache]
    ELSE LET first == cached_encode_scope_change(cache, Head(objs))
             rest == EncodeScopes(Tail(objs), first.cache)
         IN  [out |-> <<first.tks>> \o rest.out, cache |-> rest.cache]

\* __post_init__: the caches start empty
CacheInit ==
    /\ c_problem = <<>>
    /\ scope_cache = <<>>
    /\ c_results = <<>>
    /\ c_nprob = 0
    /\ c_pc = "ready"
    /\ NotCacheIdle

\* the caller drops the problem it held and builds the next one: the
\* objects of the old problem are released, the cache entries stay
CacheNewProblem ==
    /\ c_pc = "ready" /\ c_nprob < MaxProblems
    /\ c_problem' \in CacheProblems
    /\ c_results' = <<>>
    /\ c_nprob' = c_nprob + 1
    /\ UNCHANGED <<scope_cache, c_pc>>
    /\ UNCHANGED notCacheVars

\* tokenize_problem(problem) on the live problem: the headers of the
\* references and the scope_tks of the query come from the cache
CacheTokenize ==
    /\ c_pc = "ready" /\ c_problem # <<>> /\ Len(c_results) < MaxCalls
    /\ LET r == EncodeScopes(c_problem, scope_cache)
       IN  /\ scope_cache' = r.cache
           /\ c_results' = Append(c_results,
                                  [ref_headers |-> SubSeq(r.out, 1, Len(r.out) - 1),
                                   scope_tks |-> r.out[Len(r.out)]])
    /\ UNCHANGED <<c_problem, c_nprob, c_pc>>
    /\ UNCHANGED notCacheVars

CacheNext == CacheNewProblem \/ CacheTokenize

SpecCache == CacheInit /\ [][CacheNext]_vars

\* ------------------------------------------------------------------------
\* ChangeScope.from_tree, get_changed_spans and JModuleChange.from_modules
\* (code_change.py)
\* ------------------------------------------------------------------------
\* Bound: the number of top-level nodes of a module.
MaxNodes == 3

\* A top-level node of a module tree: a simple statement, an import, a
\* function, a decorated function or a class (with one attribute and one
\* method m); v tells two versions of its text apart.
MkNode(kind, name, v) == [kind |-> kind, name |-> name, v |-> v]

NodeShapes ==
    {MkNode("stmt", "", 0), MkNode("import", "", 0), MkNode("func", "f", 0),
     MkNode("func", "g", 0), MkNode("decorated", "g", 0), MkNode("class", "C", 0)}

\* A line of code: its text (keyword, name, version of the rest).
MkLine(word, name, v) == <<word, name, v>>

EmptyLine == MkLine("", "", 0)

\* get_code() of a node, as its lines
NodeLines(nd) ==
    IF nd.kind = "stmt" THEN <<MkLine("x", "", nd.v)>>
    ELSE IF nd.kind = "import" THEN <<MkLine("import", "", nd.v)>>
    ELSE IF nd.kind = "func"
         THEN <<MkLine("def", nd.name, 0), MkLine("body", nd.name, nd.v)>>
    ELSE IF nd.kind = "decorated"
         THEN <<MkLine("@dec", "", 0), MkLine("def", nd.name, 0),
                MkLine("body", nd.name, nd.v)>>
    ELSE <<MkLine("class", nd.name, 0), MkLine("attr", "", nd.v),
           MkLine("def", "m", 0), MkLine("body", "m", nd.v)>>

\* start_pos[0] of the i-th top-level node
RECURSIVE StartLine(_, _)
StartLine(nodes, i) ==
    IF i = 1 THEN 1 ELSE StartLine(nodes, i - 1) + Len(NodeLines(nodes[i - 1]))

\* number of lines of the module
ModuleLineCount(nodes) ==
    IF nodes = <<>> THEN 0 ELSE StartLine(nodes, Len(nodes)) + Len(NodeLines(nodes[Len(nodes)])) - 1

\* the module trees of up to n nodes
ModuleTrees(n) == UNION {[1..k -> NodeShapes] : k \in 1..n}

\* _is_scope_statement: a PythonNode that does not start with an import
\* (a simple statement, a decorated definition); a function or a class
\* is neither a PythonNode nor a Flow
is_scope_statement(nd) == nd.kind \in {"stmt", "decorated"}

\* the nodes tree._search_in_scope(Function.type, Class.type) yields: the
\* definitions, those inside a `decorated` node included
IsDefinition(nd) == nd.kind \in {"func", "decorated", "class"}

\* code.split("\n") of a code that ends with a newline
SplitCode(lines) == Append(lines, EmptyLine)

\* StatementSpan(statements) of the nodes i..j, no blank line before them:
\* code and line_range = (start_pos[0], end_pos[0])
StatementSpan(nodes, i, j) ==
    [code |-> SplitCode(Flatten([k \in 1..(j - i + 1) |-> NodeLines(nodes[i + k - 1])])),
     line_range |-> <<StartLine(nodes, i), StartLine(nodes, j) + Len(NodeLines(nodes[j]))>>]

\* the loop over tree.children: the maximal runs of scope statements;
\* cur is the first node of the open run (0: none)
RECURSIVE GroupSpans(_, _, _)
GroupSpans(nodes, i, cur) ==
    IF i > Len(nodes)
    THEN IF cur # 0 THEN <<StatementSpan(nodes, cur, Len(nodes))>> ELSE <<>>
    ELSE IF is_scope_statement(nodes[i])
         THEN GroupSpans(nodes, i + 1, IF cur = 0 THEN i ELSE cur)
         ELSE (IF cur # 0 THEN <<StatementSpan(nodes, cur, i - 1)>> ELSE <<>>)
                  \o GroupSpans(nodes, i + 1, 0)

\* d[key] = value on an insertion-ordered dict (a sequence of entries)
DictSet(d, key, value) ==
    IF \E i \in 1..Len(d) : d[i].key = key
    THEN [i \in 1..Len(d) |-> IF d[i].key = key THEN [key |-> key, value |-> value]
                              ELSE d[i]]
    ELSE Append(d, [key |-> key, value |-> value])

DictValues(d) == [i \in 1..Len(d) |-> d[i].value]

\* from_tree of a function: one span, the (decorated) definition itself
FunctionScope(path, lines, start) ==
    [path |-> path, kind |-> "func",
     spans |-> <<[code |-> SplitCode(lines),
                  line_range |-> <<start, start + Len(lines)>>]>>,
     extent |-> <<start, start + Len(lines)>>,
     subscopes |-> <<>>]

\* from_tree of a class: its suite is one PythonNode, so the body is one
\* span; the method found in it is a subscope
ClassScope(path, nd, start) ==
    LET lines == NodeLines(nd)
        mpath == Append(path, "m")
    IN  [path |-> path, kind |-> "class",
         spans |-> <<[code |-> SplitCode(Tail(lines)),
                      line_range |-> <<start + 1, start + Len(lines)>>]>>,
         extent |-> <<start, start + Len(lines)>>,
         subscopes |-> <<[key |-> mpath,
                          value |-> FunctionScope(mpath, SubSeq(lines, 3, 4), start + 2)]>>]

\* subscopes[spath] = ChangeScope.from_tree(spath, stree) for the
\* definitions among the nodes i.. of a module
RECURSIVE ModuleSubscopes(_, _, _)
ModuleSubscopes(nodes, i, d) ==
    IF i > Len(nodes) THEN d
    ELSE LET nd == nodes[i]
             spath == <<nd.name>>
             sub == IF nd.kind = "class" THEN ClassScope(spath, nd, StartLine(nodes, i))
                    ELSE FunctionScope(spath, NodeLines(nd), StartLine(nodes, i))
         IN  ModuleSubscopes(nodes, i + 1,
                             IF IsDefinition(nd) THEN DictSet(d, spath, sub) ELSE d)

\* ChangeScope.from_tree(ProjectPath(mname, ""), module tree)
from_tree(nodes) ==
    [path |-> <<>>, kind |-> "module",
     spans |-> GroupSpans(nodes, 1, 0),
     extent |-> <<1, ModuleLineCount(nodes) + 1>>,
     subscopes |-> ModuleSubscopes(nodes, 1, <<>>)]

\* ChangeScope.spans_code, as code.split("\n") of the spans joined by "\n"
spans_code(scope) == Flatten([i \in 1..Len(scope.spans) |-> scope.spans[i].code])

\* Change values over scopes: Added(after), Deleted(before), Modified
Added(x) == [tag |-> "A", before |-> <<>>, after |-> x]
Deleted(x) == [tag |-> "D", before |-> x, after |-> <<>>]
Modified(x, y) == [tag |-> "M", before |-> x, after |-> y]

\* Change.earlier(): the value before the change, the only value of an
\* Added change
earlier(c) == IF c.tag = "A" THEN c.after ELSE c.before

\* get_named_changes(old_map, new_map): the keys of the old map Deleted or
\* Modified, then the keys only the new map has Added
get_named_changes(old_map, new_map) ==
    LET new_of(k) == new_map[CHOOSE j \in 1..Len(new_map) : new_map[j].key = k].value
        in_new(k) == \E j \in 1..Len(new_map) : new_map[j].key = k
        in_old(k) == \E j \in 1..Len(old_map) : old_map[j].key = k
        added == SelectSeq(new_map, LAMBDA e : ~in_old(e.key))
    IN  [i \in 1..Len(old_map) |->
            IF in_new(old_map[i].key)
            THEN Modified(old_map[i].value, new_of(old_map[i].key))
            ELSE Deleted(old_map[i].value)]
          \o [i \in 1..Len(added) |-> Added(added[i].value)]

\* header_line_range of a scope: the lines of its declaration, from the
\* first decorator on; none for a module
header_line_range(scope) ==
    IF scope.kind = "module" THEN <<0, 0>>
    ELSE <<scope.extent[1],
           scope.extent[1] + (IF scope.spans[1].code[1][1] = "@dec" THEN 2 ELSE 1)>>

\* ChangedSpan(change, scope_change, line_range); the scope change is kept
\* as its tag and the path of its earlier side
MkChangedSpan(change, scope_change, line_range) ==
    [change |-> change, scope_tag |-> scope_change.tag,
     path |-> earlier(scope_change).path, line_range |-> line_range,
     header_line_range |-> header_line_range(earlier(scope_change))]

\* line_range = (line, line + len(code.split("\n"))) of the i-th span of
\* old_scope in get_modified_spans: `line` is where the span before ends
RECURSIVE InputRange(_, _)
InputRange(old_scope, i) ==
    LET line == IF i = 1 THEN 0 ELSE InputRange(old_scope, i - 1)[2]
    IN  <<line, line + Len(old_scope.spans[i].code)>>

\* the loop of get_modified_spans over old_scope.spans from span i on,
\* `line` the first line of the span in the concatenation
RECURSIVE ModifiedSpansFrom(_, _, _, _, _)
ModifiedSpansFrom(old_scope, new_scope, delta, i, line) ==
    IF i > Len(old_scope.spans) THEN <<>>
    ELSE LET span == old_scope.spans[i]
             hi == line + Len(span.code)
             subdelta == delta_for_input_range(delta, line, hi)
         IN  (IF DeltaNonEmpty(subdelta)
              THEN <<MkChangedSpan(Modified(span.code, apply_to_input(span.code, subdelta)),
                                   Modified(old_scope, new_scope), span.line_range)>>
              ELSE <<>>)
                 \o ModifiedSpansFrom(old_scope, new_scope, delta, i + 1, hi)

\* get_modified_spans(old_scope, new_scope)
get_modified_spans(old_scope, new_scope) ==
    IF spans_code(old_scope) = spans_code(new_scope) THEN <<>>
    ELSE LET od == line_diffs_to_original_delta(
                       change_to_line_diffs(spans_code(old_scope), spans_code(new_scope)))
         IN  ModifiedSpansFrom(old_scope, new_scope, od.delta, 1, 0)

\* recurse(scope_change) of get_changed_spans
RECURSIVE recurse(_)
recurse(sc) ==
    IF sc.tag = "M"
    THEN LET subs == get_named_changes(sc.before.subscopes, sc.after.subscopes)
         IN  get_modified_spans(sc.before, sc.after)
                 \o Flatten([i \in 1..Len(subs) |-> recurse(subs[i])])
    ELSE LET scope == earlier(sc)
             new_value(x) == IF sc.tag = "A" THEN Added(x) ELSE Deleted(x)
         IN  [i \in 1..Len(scope.spans) |->
                 MkChangedSpan(new_value(scope.spans[i].code), sc,
                               scope.spans[i].line_range)]
               \o Flatten([i \in 1..Len(scope.subscopes) |->
                              recurse(new_value(scope.subscopes[i].value))])

\* spans.sort(key=lambda s: s.line_range[0]): a stable sort
RECURSIVE SortByStart(_)
SortByStart(spans) ==
    IF spans = <<>> THEN <<>>
    ELSE LET rest == SortByStart(Tail(spans))
             h == Head(spans)
             before_h == SelectSeq(rest, LAMBDA s : s.line_range[1] < h.line_range[1])
             after_h == SelectSeq(rest, LAMBDA s : s.line_range[1] >= h.line_range[1])
         IN  before_h \o <<h>> \o after_h

\* get_changed_spans(scope_change)
get_changed_spans(sc) == SortByStart(recurse(sc))

\* the loop of from_modules: changed[path] = cspan
RECURSIVE StoreSpans(_, _)
StoreSpans(cspans, d) ==
    IF cspans = <<>> THEN d
    ELSE StoreSpans(Tail(cspans), DictSet(d, Head(cspans).path, Head(cspans)))

\* The trees a commit can make of a module: a node changed, every node
\* changed, a node deleted, a node inserted.
WithVersion(nodes, S) ==
    [i \in 1..Len(nodes) |-> IF i \in S THEN MkNode(nodes[i].kind, nodes[i].name, 1)
                             ELSE nodes[i]]

WithoutNode(nodes, i) == SubSeq(nodes, 1, i - 1) \o SubSeq(nodes, i + 1, Len(nodes))

WithNode(nodes, i, nd) == SubSeq(nodes, 1, i - 1) \o <<nd>> \o SubSeq(nodes, i, Len(nodes))

Edits(nodes) ==
    {nodes, WithVersion(nodes, 1..Len(nodes))}
        \cup {WithVersion(nodes, {i}) : i \in 1..Len(nodes)}
        \cup {WithoutNode(nodes, i) : i \in 1..Len(nodes)}
        \cup {WithNode(nodes, i, nd) : i \in 1..(Len(nodes) + 1), nd \in NodeShapes}

SpansInit ==
    /\ sp_tag \in {"A", "D", "M"}
    /\ \E t \in ModuleTrees(MaxNodes) :
          \/ sp_tag = "M" /\ sp_before = t /\ sp_after \in Edits(t)
          \/ sp_tag = "A" /\ sp_before = <<>> /\ sp_after = t
          \/ sp_tag = "D" /\ sp_before = t /\ sp_after = <<>>
    /\ sp_scope_change = <<>>
    /\ sp_spans = <<>>
    /\ sp_changed = <<>>
    /\ sp_result = <<>>
    /\ sp_pc = "start"
    /\ NotSpansIdle

\* module_change.map(lambda m: m._to_scope())
SpansParse ==
    /\ sp_pc = "start"
    /\ sp_scope_change' =
           IF sp_tag = "M" THEN Modified(from_tree(sp_before), from_tree(sp_after))
           ELSE IF sp_tag = "A" THEN Added(from_tree(sp_after))
           ELSE Deleted(from_tree(sp_before))
    /\ sp_pc' = "parsed"
    /\ UNCHANGED <<sp_tag, sp_before, sp_after, sp_spans, sp_changed, sp_result>>
    /\ UNCHANGED notSpansVars

\* get_changed_spans(...)
SpansDiff ==
    /\ sp_pc = "parsed"
    /\ sp_spans' = get_changed_spans(sp_scope_change)
    /\ sp_pc' = "diffed"
    /\ UNCHANGED <<sp_tag, sp_before, sp_after, sp_scope_change, sp_changed, sp_result>>
    /\ UNCHANGED notSpansVars

\* the loop of from_modules and its return
SpansStore ==
    /\ sp_pc = "diffed"
    /\ sp_changed' = StoreSpans(sp_spans, <<>>)
    /\ sp_pc' = "stored"
    /\ UNCHANGED <<sp_tag, sp_before, sp_after, sp_scope_change, sp_spans, sp_result>>
    /\ UNCHANGED notSpansVars

\* mutant: no module change counts as Modified
IsModifiedModule_Never(tag) == FALSE

\* isinstance(mchange.module_change, Modified)
IsModifiedModule(tag) == tag = "M"

\* `span.change is Added`: the identity of a Change value and the class
\* Added, which holds of no value
ChangeIsAdded(change) == FALSE

\* range(*line_range)
PyRange(line_range) == line_range[1]..(line_range[2] - 1)

\* lines_to_analyze of pre_edit_analysis for the spans of one module
LinesToAnalyze(cspans) ==
    UNION {PyRange(cspans[i].line_range) \cup PyRange(cspans[i].header_line_range) :
              i \in {j \in 1..Len(cspans) : ~ChangeIsAdded(cspans[j].change)}}

\* the name of the module the spans belong to
SpanModule == "m"

\* pre_edit_analysis(pstate, modules, changes) for the changes of the
\* module: result[mname] of a Modified module, here the lines the usage
\* analysis is asked for
SpansPreEdit ==
    /\ sp_pc = "stored"
    /\ sp_result' = IF IsModifiedModule(sp_tag)
                    THEN [mname \in {SpanModule} |-> LinesToAnalyze(DictValues(sp_changed))]
                    ELSE <<>>
    /\ sp_pc' = "analysed"
    /\ UNCHANGED <<sp_tag, sp_before, sp_after, sp_scope_change, sp_spans, sp_changed>>
    /\ UNCHANGED notSpansVars

SpansNext == SpansParse \/ SpansDiff \/ SpansStore \/ SpansPreEdit

SpecSpans == SpansInit /\ [][SpansNext]_vars

\* ------------------------------------------------------------------------
\* dataset_from_projects: the chunking of the commit histories
\* ------------------------------------------------------------------------
MaxHistory == 510

\* lengths of the history of a second project
OtherHistoryLens == {0, 1, 51}

\* values of max_history_per_repo: the default and a small one
MaxHistoryPerRepo == {1000, 75}

\* s[a:b] of a Python list, 0 <= a <= b
PySlice(s, a, b) == SubSeq(s, a + 1, IF b < Len(s) THEN b ELSE Len(s))

\* get_commit_history of a project with n commits: newest first
CommitHistory(n) == [p \in 1..n |-> p]

\* commits[-max_history_per_repo:]: the oldest portion
KeepOldest(commits, max_history) ==
    PySlice(commits, IF Len(commits) > max_history THEN Len(commits) - max_history ELSE 0,
            Len(commits))

\* history_chunk_size = max(50, math.ceil(len(h) / 10))
history_chunk_size(h) ==
    LET c == (Len(h) + 9) \div 10 IN IF c > 50 THEN c ELSE 50

\* mutant: the chunks do not share a commit
ChunkOf_NoOverlap(h, i) == PySlice(h, i, i + history_chunk_size(h))

\* h[i : i + history_chunk_size + 1]
ChunkOf(h, i) == PySlice(h, i, i + history_chunk_size(h) + 1)

ChunkInit ==
    /\ \E n \in 0..MaxHistory, others \in {<<>>} \cup {<<k>> : k \in OtherHistoryLens},
          max_history \in MaxHistoryPerRepo :
          ch_histories = [r \in 1..(1 + Len(others)) |->
                             KeepOldest(CommitHistory(IF r = 1 THEN n ELSE others[1]),
                                        max_history)]
    /\ ch_ri = 1
    /\ ch_i = 0
    /\ ch_roots = <<>>
    /\ chunked_histories = <<>>
    /\ ch_workdirs = <<>>
    /\ ch_calls = <<>>
    /\ ch_pc = "chunking"
    /\ NotChunkIdle

\* one iteration of `for i in range(0, len(h), history_chunk_size)`
ChunkAppend ==
    /\ ch_pc = "chunking" /\ ch_ri <= Len(ch_histories)
    /\ ch_i < Len(ch_histories[ch_ri])
    /\ ch_roots' = Append(ch_roots, ch_ri)
    /\ chunked_histories' = Append(chunked_histories, ChunkOf(ch_histories[ch_ri], ch_i))
    /\ ch_i' = ch_i + history_chunk_size(ch_histories[ch_ri])
    /\ UNCHANGED <<ch_histories, ch_ri, ch_workdirs, ch_calls, ch_pc>>
    /\ UNCHANGED notChunkVars

\* the range is exhausted: the next root of the zip
ChunkNextRoot ==
    /\ ch_pc = "chunking" /\ ch_ri <= Len(ch_histories)
    /\ ch_i >= Len(ch_histories[ch_ri])
    /\ ch_ri' = ch_ri + 1
    /\ ch_i' = 0
    /\ UNCHANGED <<ch_histories, ch_roots, chunked_histories, ch_workdirs, ch_calls, ch_pc>>
    /\ UNCHANGED notChunkVars

\* workdirs = [workdir / f"chunk-{i}" for i in range(len(roots))]
ChunkWorkdirs ==
    /\ ch_pc = "chunking" /\ ch_ri > Len(ch_histories)
    /\ ch_workdirs' = [k \in 1..Len(ch_roots) |-> k - 1]
    /\ ch_pc' = "mapping"
    /\ UNCHANGED <<ch_histories, ch_ri, ch_i, ch_roots, chunked_histories, ch_calls>>
    /\ UNCHANGED notChunkVars

\* pmap(_process_commits, roots, workdirs, chunked_histories, ...): the
\* call for the next chunk
ChunkProcess ==
    /\ ch_pc = "mapping" /\ Len(ch_calls) < Len(ch_roots)
    /\ LET k == Len(ch_calls) + 1
       IN  ch_calls' = Append(ch_calls, [root |-> ch_roots[k], workdir |-> ch_workdirs[k],
                                         commits |-> chunked_histories[k]])
    /\ UNCHANGED <<ch_histories, ch_ri, ch_i, ch_roots, chunked_histories, ch_workdirs, ch_pc>>
    /\ UNCHANGED notChunkVars

\* pmap has returned: the results are collected
ChunkDone ==
    /\ ch_pc = "mapping" /\ Len(ch_calls) = Len(ch_roots)
    /\ ch_pc' = "done"
    /\ UNCHANGED <<ch_histories, ch_ri, ch_i, ch_roots, chunked_histories, ch_workdirs,
                   ch_calls>>
    /\ UNCHANGED notChunkVars

ChunkNext == ChunkAppend \/ ChunkNextRoot \/ ChunkWorkdirs \/ ChunkProcess \/ ChunkDone

SpecChunk == ChunkInit /\ [][ChunkNext]_vars

\* ------------------------------------------------------------------------
\* dataset_from_projects: the report of the analyzer errors
\* ------------------------------------------------------------------------
MaxErrors == 3
MaxCount == 2

\* The entries of JediUsageAnalyzer._KnownJediErrors, as their characters.
KnownUnpack ==
    <<"n", "o", "t", " ", "e", "n", "o", "u", "g", "h", " ", "v", "a", "l",
      "u", "e", "s", " ", "t", "o", " ", "u", "n", "p", "a", "c", "k", " ",
      "(", "e", "x", "p", "e", "c", "t", "e", "d", " ", "2">>

KnownNewline ==
    <<"'", "N", "e", "w", "l", "i", "n", "e", "'", " ", "o", "b", "j", "e",
      "c", "t", " ", "h", "a", "s", " ", "n", "o", " ", "a", "t", "t", "r",
      "i", "b", "u", "t", "e", " ", "'", "c", "h", "i", "l", "d", "r", "e",
      "n", "'">>

KnownTrailer ==
    <<"t", "r", "a", "i", "l", "e", "r", "_", "o", "p", " ", "i", "s", " ",
      "a", "c", "t", "u", "a", "l", "l", "y", " ">>

KnownScope ==
    <<"T", "h", "e", "r", "e", "'", "s", " ", "a", " ", "s", "c", "o", "p",
      "e", " ", "t", "h", "a", "t", " ", "w", "a", "s", " ", "n", "o", "t",
      " ", "m", "a", "n", "a", "g", "e", "d", ":", " ", "<", "M", "o", "d",
      "u", "l", "e">>

KnownRecursion ==
    <<"m", "a", "x", "i", "m", "u", "m", " ", "r", "e", "c", "u", "r", "s",
      "i", "o", "n", " ", "d", "e", "p", "t", "h", " ", "e", "x", "c", "e",
      "e", "d", "e", "d">>

KnownNoneType ==
    <<"'", "N", "o", "n", "e", "T", "y", "p", "e", "'", " ", "o", "b", "j",
      "e", "c", "t", " ", "h", "a", "s", " ", "n", "o", " ", "a", "t", "t",
      "r", "i", "b", "u", "t", "e", " ", "'", "t", "y", "p", "e", "'">>

KnownJediErrors ==
    {KnownUnpack, KnownNewline, KnownTrailer, KnownScope, KnownRecursion, KnownNoneType}

\* The exceptions of the sample runs: class name and message.
UnpackError ==
    [cls |->
        <<"V", "a", "l", "u", "e", "E", "r", "r", "o", "r">>,
     msg |->
        <<"n", "o", "t", " ", "e", "n", "o", "u", "g", "h", " ", "v", "a",
          "l", "u", "e", "s", " ", "t", "o", " ", "u", "n", "p", "a", "c",
          "k", " ", "(", "e", "x", "p", "e", "c", "t", "e", "d", " ", "2",
          ",", " ", "g", "o", "t", " ", "1", ")">>]

TrailerError ==
    [cls |->
        <<"A", "s", "s", "e", "r", "t", "i", "o", "n", "E", "r", "r", "o",
          "r">>,
     msg |->
        <<"t", "r", "a", "i", "l", "e", "r", "_", "o", "p", " ", "i", "s",
          " ", "a", "c", "t", "u", "a", "l", "l", "y", " ", "[">>]

DepthError ==
    [cls |->
        <<"R", "e", "c", "u", "r", "s", "i", "o", "n", "E", "r", "r", "o",
          "r">>,
     msg |->
        <<"m", "a", "x", "i", "m", "u", "m", " ", "r", "e", "c", "u", "r",
          "s", "i", "o", "n", " ", "d", "e", "p", "t", "h", " ", "e", "x",
          "c", "e", "e", "d", "e", "d">>]

NoneTypeError ==
    [cls |->
        <<"A", "t", "t", "r", "i", "b", "u", "t", "e", "E", "r", "r", "o",
          "r">>,
     msg |->
        <<"'", "N", "o", "n", "e", "T", "y", "p", "e", "'", " ", "o", "b",
          "j", "e", "c", "t", " ", "h", "a", "s", " ", "n", "o", " ", "a",
          "t", "t", "r", "i", "b", "u", "t", "e", " ", "'", "t", "y", "p",
          "e", "'">>]

OperandError ==
    [cls |->
        <<"T", "y", "p", "e", "E", "r", "r", "o", "r">>,
     msg |->
        <<"b", "a", "d", " ", "o", "p", "e", "r", "a", "n", "d">>]

SampleExceptions ==
    {UnpackError, TrailerError, DepthError, NoneTypeError, OperandError}

\* repr(e) of an exception with one string argument: the class name and
\* the repr of the message, in double quotes when the message holds a
\* single quote
Repr(e) ==
    LET q == IF "'" \in Range(e.msg) THEN "\"" ELSE "'"
    IN  e.cls \o <<"(", q>> \o e.msg \o <<q, ")">>

\* str(e)
Str(e) == e.msg

\* `k in err_text` of two strings
Contains(k, err_text) ==
    \E i \in 0..(Len(err_text) - Len(k)) : SubSeq(err_text, i + 1, i + Len(k)) = k

\* JediUsageAnalyzer.is_known_error
is_known_error(err_text) == \E k \in KnownJediErrors : Contains(k, err_text)

\* the keys under which the analyzer records an exception: get_line_usages
\* records the cut repr(e), post_edit_analysis records str(e)
RecordedAs(e) == {ErrText(Repr(e)), Str(e)}

RecordedKeys == UNION {RecordedAs(e) : e \in SampleExceptions}

\* sorted(errors.keys(), key=lambda k: errors[k], reverse=True): the
\* orders of the keys by decreasing count
SortedByCount(errors) ==
    {s \in Orders(DOMAIN errors) :
        \A i \in 1..(Len(s) - 1) : errors[s[i]] >= errors[s[i + 1]]}

ReportInit ==
    /\ \E S \in SUBSET RecordedKeys :
          /\ Cardinality(S) <= MaxErrors
          /\ rp_stats \in [S -> 1..MaxCount]
    /\ rp_errors = <<>>
    /\ rp_report = <<>>
    /\ rp_pc = "collected"
    /\ NotReportIdle

\* errors = stats.pop("analyzer_errors") and the loop that pops the keys
\* is_known_error accepts
ReportFilter ==
    /\ rp_pc = "collected"
    /\ rp_errors' = [k \in {x \in DOMAIN rp_stats : ~is_known_error(x)} |-> rp_stats[k]]
    /\ rp_pc' = "filtered"
    /\ UNCHANGED <<rp_stats, rp_report>>
    /\ UNCHANGED notReportVars

\* `if errors:` the report, by decreasing count
ReportPrint ==
    /\ rp_pc = "filtered"
    /\ DOMAIN rp_errors # {}
    /\ \E s \in SortedByCount(rp_errors) :
          rp_report' = [i \in 1..Len(s) |-> <<s[i], rp_errors[s[i]]>>]
    /\ rp_pc' = "printed"
    /\ UNCHANGED <<rp_stats, rp_errors>>
    /\ UNCHANGED notReportVars

\* no error is left: nothing is printed
ReportNothing ==
    /\ rp_pc = "filtered"
    /\ DOMAIN rp_errors = {}
    /\ rp_pc' = "printed"
    /\ UNCHANGED <<rp_stats, rp_errors, rp_report>>
    /\ UNCHANGED notReportVars

ReportNext == ReportFilter \/ ReportPrint \/ ReportNothing

SpecReport == ReportInit /\ [][ReportNext]_vars

C8_WorkspaceRemoved ==
    (r_pc \in {"returned", "raised"} /\ r_created) => ~r_tempdir

\* C8 witness: the change encoder raised after an earlier commit was
\* processed, in a call that created its workspace.
C8_Witness ==
    /\ r_pc = "raised" /\ r_created /\ r_cause = "encoder"
    /\ Len(r_enc_calls) >= 2

\* C9: the oldest commit is checked out first, then the commits are
\* processed from the second oldest to the newest, the encoder being
\* called once per commit with the change from the commit checked out
\* before; the returned list is the concatenation of its outputs.
C9_PastToPresent ==
    LET n == Len(r_history)
    IN  /\ \A k \in 1..Len(r_checkouts) : r_checkouts[k] = n + 1 - k
        /\ \A k \in 1..Len(r_enc_calls) :
              r_enc_calls[k].from = n + 1 - k /\ r_enc_calls[k].to = n - k
        /\ r_pc = "returned" =>
              /\ Len(r_checkouts) = n
              /\ Len(r_enc_calls) = n - 1
              /\ r_results = Flatten([k \in 1..Len(r_enc_calls) |-> r_enc_calls[k].out])
              /\ r_edits = r_results

\* C9 witness: a replay of three commits has returned problems of both
\* processed commits.
C9_Witness ==
    /\ r_pc = "returned" /\ Len(r_history) = 3
    /\ Len(r_results) >= 2
    /\ r_results[1].commit = 2 /\ r_results[Len(r_results)].commit = 1

\* C10: after a step whose diff holds a rename between two source files,
\* path_changes holds exactly one Deleted(old path) directly followed by
\* exactly one Added(new path), and the module map has lost the old path
\* and holds the newly parsed module under the new path.
C10_RenameIsDeleteThenAdd ==
    (r_pc = "loop" /\ Len(r_enc_calls) >= 1) =>
        \A i \in 1..Len(r_diff) :
            LET line == r_diff[i]
                dels == {j \in 1..Len(r_path_changes) :
                            r_path_changes[j] = [kind |-> "D", path |-> line.p1]}
                adds == {j \in 1..Len(r_path_changes) :
                            r_path_changes[j] = [kind |-> "A", path |-> line.p2]}
            IN  (line.tag = "R100" /\ IsSrc(line.p1) /\ IsSrc(line.p2)) =>
                    /\ Cardinality(dels) = 1 /\ Cardinality(adds) = 1
                    /\ \E j \in dels : j + 1 \in adds
                    /\ line.p1 \notin DOMAIN module_scripts
                    /\ line.p2 \in DOMAIN module_scripts
                    /\ module_scripts[line.p2] = ParseModule(r_history[r_next + 1], line.p2)

\* C10 witness: a completed step whose diff renamed a.py to b.py.
C10_Witness ==
    /\ r_pc = "loop" /\ Len(r_enc_calls) >= 1
    /\ \E i \in 1..Len(r_diff) :
          r_diff[i] = [tag |-> "R100", p1 |-> FileA, p2 |-> FileB]

\* C26: no Modified or Deleted path change of the replay misses its key
\* in the module map, and after the first checkout and after each commit
\* the keys of the map are the source files (suffix .py, no ignored
\* directory in the path) of the commit checked out.
C26_ModuleMapTracksSources ==
    /\ r_cause # "keyerror"
    /\ (r_pc \in {"loop", "returned"}) =>
          DOMAIN module_scripts =
              {f \in Range(ReplayFiles) : IsSrc(f) /\ Content(r_history[r_now], f) # 0}

\* ------------------------------------------------------------------------
\* Properties of process_change
\* ------------------------------------------------------------------------
\* the spans of the project change in visiting order: modules in
\* module_order, spans in each module's changed-map order
AllSpans ==
    Flatten([i \in 1..Len(module_order) |->
                IF module_order[i] \in DOMAIN changed
                THEN changed[module_order[i]].spans ELSE <<>>])

\* the number of spans the loop has visited so far
VisitedCount ==
    LET before == Flatten([i \in 1..Len(module_order) |->
                              IF i < g_mi /\ module_order[i] \in DOMAIN changed
                              THEN changed[module_order[i]].spans ELSE <<>>])
    IN  Len(before) + (g_si - 1)

IndexOf(seq, x) == CHOOSE k \in 1..Len(seq) : seq[k] = x

ProblemsFor(span) == {i \in 1..Len(problems) : problems[i].span = span}

\* C1: a problem is emitted for a visited span iff its change is Modified
\* and (training mode or the innermost parent scope is a function); in eval
\* mode every emitted problem is a Modified function-body span.
C1_ProblemGating ==
    /\ \A k \in 1..Len(AllSpans) :
          LET s == AllSpans[k]
          IN  IF k <= VisitedCount /\ s.ch = "M" /\ (is_training \/ s.path = "f")
              THEN Cardinality(ProblemsFor(s)) = 1
              ELSE ProblemsFor(s) = {}
    /\ \A i \in 1..Len(problems) : problems[i].span \in Range(AllSpans)
    /\ ~is_training =>
          \A i \in 1..Len(problems) :
              problems[i].span.ch = "M" /\ problems[i].span.path = "f"

\* C1 witness: an eval-mode run that has emitted a problem and has passed
\* over a Modified span of a class scope and an Added span.
C1_Witness ==
    /\ g_pc = "done" /\ ~is_training /\ Len(problems) >= 1
    /\ \E k \in 1..Len(AllSpans) : AllSpans[k].ch = "M" /\ AllSpans[k].path = "C"
    /\ \E k \in 1..Len(AllSpans) : AllSpans[k].ch = "A"

\* C5: the relevant_changes of the problem of the k-th visited span are
\* the k-1 spans visited before it, latest first, whether or not a
\* problem was emitted for them.
C5_RelevantChangesLatestFirst ==
    \A i \in 1..Len(problems) :
        LET k == IndexOf(AllSpans, problems[i].span)
        IN  problems[i].relevant_changes = Reverse(SubSeq(AllSpans, 1, k - 1))

\* C5 witness: a problem for the third visited span, whose two
\* predecessors include one without a problem.
C5_Witness ==
    \E i \in 1..Len(problems) :
        /\ IndexOf(AllSpans, problems[i].span) >= 3
        /\ \E j \in 1..2 : ProblemsFor(AllSpans[j]) = {}
        /\ Len(problems[i].relevant_changes) >= 2

\* C6: in every problem no span occurs twice across relevant_changes,
\* relevant_unchanged and the edited span; the relevant_unchanged
\* fragments have pairwise distinct (module, line_range) keys, none of
\* which is the key of the edited span or of a relevant change.
C6_RelevanceUnique ==
    \A i \in 1..Len(problems) :
        LET p == problems[i]
            all == <<p.span>> \o p.relevant_changes \o p.relevant_unchanged
            ru == p.relevant_unchanged
        IN  /\ \A x, y \in 1..Len(all) : x # y => all[x] # all[y]
            /\ \A x, y \in 1..Len(ru) : x # y => SpanKey(ru[x]) # SpanKey(ru[y])
            /\ \A x \in 1..Len(ru) :
                  /\ SpanKey(ru[x]) # SpanKey(p.span)
                  /\ \A c \in Range(p.relevant_changes) : SpanKey(ru[x]) # SpanKey(c)

\* C6 witness: a problem with a relevant unchanged fragment, one of whose
\* used definitions resolves to a fragment that coincides with a relevant
\* change (and was therefore left out).
C6_Witness ==
    \E i \in 1..Len(problems) :
        LET p == problems[i]
        IN  /\ Len(p.relevant_unchanged) >= 1
            /\ \E c \in Range(p.relevant_changes), l \in AllLines(p.span) :
                  \E d \in mod2usages[p.span.mod][l] :
                      /\ ~IsSelfRef(d, p.span)
                      /\ \E x \in 1..Len(DefSpans(d)) : SpanKey(DefSpans(d)[x]) = SpanKey(c)

\* The spans of functions a commit adds to a module that exists before
\* and after it.
AddedFunctionSpans ==
    {s \in Range(AllSpans) : s.ch = "A" /\ IsFuncBody(s) /\ changed[s.mod].mc = "M"}

\* C19 as stated: for a function added to an existing module, training
\* mode gives exactly one problem, whose change is Added, and eval mode
\* gives none.
C19_AddedFunctionOneProblemInTraining ==
    g_pc = "done" =>
        \A s \in AddedFunctionSpans :
            IF is_training
            THEN /\ Cardinality(ProblemsFor(s)) = 1
                 /\ \A i \in ProblemsFor(s) : problems[i].span.ch = "A"
            ELSE ProblemsFor(s) = {}

\* C19 (amended): a function added to an existing module gives no
\* problem in either mode (no problem ever has an Added change); once
\* visited, its span is only recorded among the processed spans.
C19_AddedFunctionNoProblem ==
    /\ \A s \in AddedFunctionSpans : ProblemsFor(s) = {}
    /\ \A i \in 1..Len(problems) : problems[i].span.ch # "A"
    /\ \A k \in 1..Len(AllSpans) :
          (k <= VisitedCount /\ AllSpans[k] \in AddedFunctionSpans)
              => AllSpans[k] \in Range(processed_cspans)

\* a training-mode run is over, and the span of an added function is a
\* relevant change of a problem emitted after it
C19_Witness ==
    /\ g_pc = "done" /\ is_training
    /\ \E s \in AddedFunctionSpans, i \in 1..Len(problems) :
           s \in Range(problems[i].relevant_changes)

\* ------------------------------------------------------------------------
\* Properties of tokenize_problem
\* ------------------------------------------------------------------------
\* C2 (as claimed): every emitted record's input_tks, the scope header
\* followed by the chunk input, has at most max_query_tks tokens.
C2_InputWithinQueryCap ==
    \A i \in 1..Len(tk_problems) :
        Len(tk_problems[i].input_tks) <= tk_cfg.max_query_tks

\* the kept references before position j of all_refs
KeptBefore(p, j) ==
    SelectSeq(SubSeq(p.all_refs, 1, j - 1),
              LAMBDA r : r \in Range(p.named_references))

\* C3: the kept references of a record are within max_total_ref_tks in
\* total; they are the references, taken in the order above chunks, below
\* chunks, named references, that fit on top of the ones kept before.
C3_TotalRefBudget ==
    \A i \in 1..Len(tk_problems) :
        LET p == tk_problems[i]
            lens(rs) == SumLen([k \in 1..Len(rs) |-> rs[k].tks])
        IN  /\ lens(p.named_references) <= tk_cfg.max_total_ref_tks
            /\ p.named_references = KeptBefore(p, Len(p.all_refs) + 1)
            /\ \A j \in 1..Len(p.all_refs) :
                  (p.all_refs[j] \in Range(p.named_references))
                      <=> (lens(KeptBefore(p, j)) + Len(p.all_refs[j].tks)
                              <= tk_cfg.max_total_ref_tks)
            /\ \A j, k \in 1..Len(p.all_refs) :
                  (j < k /\ p.all_refs[k].name[1] = "above chunk")
                      => p.all_refs[j].name[1] = "above chunk"
            /\ \A j, k \in 1..Len(p.all_refs) :
                  (j < k /\ p.all_refs[j].name[1] \in {"changed ref", "unchanged ref"})
                      => p.all_refs[k].name[1] \in {"changed ref", "unchanged ref"}

\* C3 witness: a record that dropped a reference and kept a later one.
C3_Witness ==
    \E i \in 1..Len(tk_problems) :
        LET p == tk_problems[i]
        IN  \E j, k \in 1..Len(p.all_refs) :
                /\ j < k
                /\ p.all_refs[j] \notin Range(p.named_references)
                /\ p.all_refs[k] \in Range(p.named_references)

\* C4: every kept reference of a record has at most max_ref_tks tokens.
C4_RefWithinCap ==
    \A i \in 1..Len(tk_problems) :
        \A j \in 1..Len(tk_problems[i].named_references) :
            Len(tk_problems[i].named_references[j].tks) <= tk_cfg.max_ref_tks

\* C4 witness: a record that kept an above chunk, a below chunk and a
\* later chunk of a changed reference that fills max_ref_tks exactly.
C4_Witness ==
    \E i \in 1..Len(tk_problems) :
        LET refs == tk_problems[i].named_references
        IN  /\ \A kind \in {"above chunk", "below chunk"} :
                  \E j \in 1..Len(refs) : refs[j].name[1] = kind
            /\ \E j \in 1..Len(refs) :
                  /\ refs[j].name[1] = "changed ref" /\ refs[j].name[2] >= 1
                  /\ Len(refs[j].tks) = tk_cfg.max_ref_tks

\* The markers of a token sequence, in order.
Markers(tks) == SelectSeq(tks, is_extra_id)

\* the markers extra_id(0) .. extra_id(n - 1)
FirstMarkers(n) == [j \in 1..n |-> get_extra_id(j - 1)]

\* C16: tokenize_problem returns at most max_chunks_per_elem records for
\* one problem, and the walk over the lines goes on only while fewer
\* records than that have been emitted.
C16_AtMostMaxChunks ==
    /\ Len(tk_problems) <= tk_cfg.max_chunks_per_elem
    /\ tk_pc = "walk" => Len(tk_problems) < tk_cfg.max_chunks_per_elem

\* the walk has stopped at the max_chunks_per_elem-th record with lines
\* of the span not yet visited
C16_Witness ==
    /\ tk_pc = "done"
    /\ Len(tk_problems) = tk_cfg.max_chunks_per_elem
    /\ tk_l < Len(tk_problem.deltas)
    /\ \E l \in (tk_l + 1)..Len(tk_problem.deltas) :
           has_change(join_list(tk_problem.deltas[l], Newline_id))

\* C17: a chunk holds at most max_lines_to_edit lines, its j-th line is
\* marked extra_id(j) in both the input and the output, and the input of
\* every record holds at most max_lines_to_edit markers, all of index
\* below max_lines_to_edit.
C17_ChunkLineMarkers ==
    /\ tk_pc \in {"walk", "done", "raised"} =>
          /\ chunk_lines <= tk_cfg.max_lines_to_edit
          /\ Markers(chunk_input) = FirstMarkers(chunk_lines)
          /\ Markers(chunk_output) = FirstMarkers(chunk_lines)
    /\ \A i \in 1..Len(tk_problems) :
          /\ Len(Markers(tk_problems[i].input_tks)) <= tk_cfg.max_lines_to_edit
          /\ Range(Markers(tk_problems[i].input_tks))
                 \subseteq Range(FirstMarkers(tk_cfg.max_lines_to_edit))

\* a chunk was closed by the line cap alone and a record of two marked
\* lines was emitted
C17_Witness ==
    /\ tk_cfg.max_lines_to_edit = 2
    /\ chunk_start_l = 2
    /\ chunk_lines >= 1
    /\ Len(tk_problems) >= 1
    /\ Markers(tk_problems[1].input_tks) = FirstMarkers(2)

\* C18: when a chunk is closed a record is emitted exactly when its
\* chunk_output holds an addition or a deletion, and a span without any
\* changed line gives no record.
C18_EmitIffChange ==
    /\ [][(/\ tk_pc = "walk"
           /\ tk_pc' # "raised"
           /\ ClosesChunk(tk_cfg, tk_problem, scope_tks, chunk_input, chunk_lines, tk_l))
              => /\ has_change(chunk_output)
                       => Len(tk_problems') = Len(tk_problems) + 1
                 /\ ~has_change(chunk_output) => tk_problems' = tk_problems]_vars
    /\ []((/\ tk_pc = "done"
           /\ \A l \in 1..Len(tk_problem.deltas) :
                  ~has_change(join_list(tk_problem.deltas[l], Newline_id)))
              => tk_problems = <<>>)

\* a first chunk without a change was closed without a record and a
\* later chunk with a change gave one
C18_Witness ==
    /\ tk_pc = "done"
    /\ tk_cfg.max_lines_to_edit = 1
    /\ Len(tk_problem.deltas) >= 2
    /\ ~has_change(join_list(tk_problem.deltas[1], Newline_id))
    /\ has_change(join_list(tk_problem.deltas[2], Newline_id))
    /\ Len(tk_problems) = 1

\* ------------------------------------------------------------------------
\* Properties of the line delta engine
\* ------------------------------------------------------------------------
\* C13: the delta computed from two blobs keeps the first blob as its
\* original, and applied to the first blob it yields the second.
C13_DeltaRoundTrip ==
    /\ d_pc \in {"computed", "applied"} => d_delta.original = d_before
    /\ d_pc = "applied" => d_applied = d_after

\* C13 witness: a round trip over a delta that deletes a line, adds a line
\* before a kept line and adds a line at the end.
C13_Witness ==
    /\ d_pc = "applied"
    /\ Len(d_delta.delta) = Len(d_before) + 1
    /\ d_delta.delta[Len(d_delta.delta)] # <<>>
    /\ \E i \in 1..Len(d_before) :
          \E k \in 1..Len(d_delta.delta[i]) : d_delta.delta[i][k].act = "-"
    /\ \E i \in 1..Len(d_before) :
          /\ d_delta.delta[i] # <<>>
          /\ \A k \in 1..Len(d_delta.delta[i]) : d_delta.delta[i][k].act = "+"

\* ------------------------------------------------------------------------
\* Properties of get_line_usages
\* ------------------------------------------------------------------------
\* the names of requested lines the loop has gone through whose
\* resolution raised
FailedNames ==
    {k \in 1..Len(all_names) :
        /\ k < u_i
        /\ all_names[k].line \in lines_to_analyze
        /\ all_names[k].res.err # <<>>}

CountOf(counts, key) == IF key \in DOMAIN counts THEN counts[key] ELSE 0

SumCounts(counts) ==
    LET keys == DOMAIN counts
        RECURSIVE Sum(_)
        Sum(K) == IF K = {} THEN 0
                  ELSE LET k == CHOOSE x \in K : TRUE
                       IN  counts[k] + Sum(K \ {k})
    IN  Sum(keys)

\* C20: an exception of the resolver on one name never ends the call:
\* the count of its error text grows by exactly one, the later names of
\* requested lines are still resolved, the call returns the analysis,
\* and the total of error_counts grows by the number of failed names.
C20_ErrorsAbsorbed ==
    /\ u_pc \in {"start", "loop", "done"}
    /\ \A key \in DOMAIN error_counts \cup DOMAIN u_counts0 :
          CountOf(error_counts, key) =
              CountOf(u_counts0, key)
                  + Cardinality({k \in FailedNames :
                                    ErrText(all_names[k].res.err) = key})
    /\ SumCounts(error_counts) = SumCounts(u_counts0) + Cardinality(FailedNames)
    /\ \A k \in 1..Len(all_names) :
          (k < u_i /\ all_names[k].line \in lines_to_analyze /\ all_names[k].res.found)
              => /\ all_names[k].line \in DOMAIN line2usages
                 /\ DefOf(all_names[k]) \in line2usages[all_names[k].line]
    /\ u_pc = "done" => u_i = Len(all_names) + 1 /\ u_result = line2usages

\* the call has returned after two failures with the same error text, on
\* an analyzer that had already counted an error, and a name after the
\* failures was resolved to a definition
C20_Witness ==
    /\ u_pc = "done"
    /\ u_counts0 # <<>>
    /\ \E j, k \in FailedNames :
          /\ j < k
          /\ all_names[j].res.err # all_names[k].res.err
          /\ ErrText(all_names[j].res.err) = ErrText(all_names[k].res.err)
          /\ \E n \in (k + 1)..Len(all_names) :
                 /\ all_names[n].res.found /\ all_names[n].res.err = <<>>
                 /\ all_names[n].line \in DOMAIN u_result
                 /\ DefOf(all_names[n]) \in u_result[all_names[n].line]

\* ------------------------------------------------------------------------
\* Properties of post_edit_analysis
\* ------------------------------------------------------------------------
\* the modules reached from the modules S along the edges of graph G
RECURSIVE ReachFrom(_, _)
ReachFrom(G, S) ==
    LET S2 == S \cup UNION {G[m] : m \in S \cap DOMAIN G}
    IN  IF S2 = S THEN S ELSE ReachFrom(G, S2)

\* a and b are on a cycle of G
OnCycle(G, a, b) == b \in ReachFrom(G, G[a]) /\ a \in ReachFrom(G, G[b])

\* the import graph of the project: every imported name, and only the
\* names the resolver resolves
ImportGraph == [m \in ProjectModules |-> {n.src : n \in o_imports[m]}]

ResolvedImportGraph ==
    [m \in ProjectModules |-> {n.src : n \in {x \in o_imports[m] : ~x.raises}}]

\* a comes before b in the sequence
Precedes(seq, a, b) ==
    \E i, j \in 1..Len(seq) : i < j /\ seq[i] = a /\ seq[j] = b

\* C14 as stated: if N imports a definition from M and the two are not
\* on an import cycle, M precedes N in the returned order, and
\* process_change visits the changed modules in that order.
C14_ImportedBeforeImporter ==
    o_pc \in {"visit", "done"} =>
        \A M, N \in ProjectModules :
            (M # N /\ M \in ImportGraph[N] /\ ~OnCycle(ImportGraph, M, N))
                => Precedes(o_order, M, N)

\* C14 (amended): if the resolver resolves a name N imports from M and
\* the two are not on a cycle of resolved imports, M precedes N in the
\* returned order; the order holds every project module once, and
\* process_change visits the changed modules in that order.
C14_ResolvedImportedBeforeImporter ==
    /\ o_pc \in {"visit", "done"} =>
          /\ \A M, N \in ProjectModules :
                (M # N /\ M \in ResolvedImportGraph[N]
                     /\ ~OnCycle(ResolvedImportGraph, M, N))
                    => Precedes(o_order, M, N)
          /\ Range(o_order) = ProjectModules /\ Len(o_order) = Len(ModSeq)
          /\ o_visited = SelectSeq(SubSeq(o_order, 1, o_vi - 1),
                                   LAMBDA m : m \in o_changed)
    /\ o_pc = "done" => \A M, N \in o_changed :
                            Precedes(o_order, M, N) <=> Precedes(o_visited, M, N)

\* the walk is over for a project in which "a" imports a resolved name
\* of "c", an import of "b" fails to resolve and two modules are on a
\* cycle; "c" was visited before "a"
C14_Witness ==
    /\ o_pc = "done"
    /\ "c" \in ResolvedImportGraph["a"]
    /\ ~OnCycle(ResolvedImportGraph, "a", "c")
    /\ \E n \in o_imports["b"] : n.raises
    /\ \E M, N \in ProjectModules : M # N /\ OnCycle(ResolvedImportGraph, M, N)
    /\ Precedes(o_visited, "c", "a")

\* ------------------------------------------------------------------------
\* Properties of the tokenizer's caches
\* ------------------------------------------------------------------------
\* C15: two calls of tokenize_problem on the same problem with the same
\* configuration return the same records, whatever earlier calls left in
\* the caches.
C15_PackingDeterministic ==
    \A i, j \in 1..Len(c_results) : c_results[i] = c_results[j]

\* C24: whatever the earlier calls left in the cache, every call of
\* tokenize_problem gets from the cache, for each scope change of the
\* problem, the tokens a fresh computation on that object gives (also
\* when the object's address was the address of a released object).
C24_CacheHitIsFresh ==
    \A i \in 1..Len(c_results) :
        LET fresh == [k \in 1..Len(c_problem) |->
                         encode_scope_change(CacheCfg, c_problem[k].scope)]
        IN  /\ c_results[i].ref_headers = SubSeq(fresh, 1, Len(fresh) - 1)
            /\ c_results[i].scope_tks = fresh[Len(fresh)]

\* ------------------------------------------------------------------------
\* Properties of from_tree, get_changed_spans and JModuleChange
\* ------------------------------------------------------------------------
\* a list of ChangedSpans is sorted by line_range start and holds no span
\* twice
SortedNoDuplicates(spans) ==
    /\ \A i, j \in 1..Len(spans) :
          i < j => spans[i].line_range[1] <= spans[j].line_range[1]
    /\ \A i, j \in 1..Len(spans) : i # j => spans[i] # spans[j]

\* C11: the list get_changed_spans returns, and the list JModuleChange
\* stores, are sorted by non-decreasing line_range start and hold no
\* duplicate span.
C11_ChangedSpansSorted ==
    /\ sp_pc \in {"diffed", "stored"} => SortedNoDuplicates(sp_spans)
    /\ sp_pc = "stored" => SortedNoDuplicates(DictValues(sp_changed))

\* the lines start .. end - 1 of a (start, end) range
LinesOf(range) == range[1]..(range[2] - 1)

SpanLines(scope) == UNION {LinesOf(scope.spans[i].line_range) : i \in 1..Len(scope.spans)}

SubscopeLines(scope) ==
    UNION {LinesOf(scope.subscopes[i].value.extent) : i \in 1..Len(scope.subscopes)}

\* C12: the lines of a parsed module's statement spans and the lines of
\* its subscopes together are the lines of the module, and no line is in
\* both.
C12_SpansAndSubscopesPartition ==
    (sp_pc = "parsed" /\ sp_tag # "A") =>
        LET scope == sp_scope_change.before
        IN  /\ SpanLines(scope) \cup SubscopeLines(scope) = LinesOf(scope.extent)
            /\ SpanLines(scope) \cap SubscopeLines(scope) = {}


\* C25: from_modules retains every changed span: the mapping it returns
\* has as many entries as get_changed_spans returned spans.
C25_EveryChangedSpanRetained ==
    sp_pc = "stored" => Len(sp_changed) = Len(sp_spans)

\* the module trees of the call and the scopes from_tree made of them
ParsedSides ==
    (IF sp_tag # "A" THEN {<<sp_before, sp_scope_change.before>>} ELSE {})
        \cup (IF sp_tag # "D" THEN {<<sp_after, sp_scope_change.after>>} ELSE {})

\* C30: a module scope has one subscope per definition of the module, in
\* source order, and a function scope has no subscopes: the number of
\* subscopes is the number of definitions.
C30_OneSubscopePerDefinition ==
    sp_pc = "parsed" =>
        \A side \in ParsedSides :
            LET found == SelectSeq(side[1], IsDefinition)
                subs == side[2].subscopes
            IN  /\ Len(subs) = Len(found)
                /\ \A i \in 1..Len(subs) :
                      /\ subs[i].key = <<found[i].name>>
                      /\ subs[i].value.kind = "func" => subs[i].value.subscopes = <<>>

\* C22: when get_modified_spans diffs two versions of a scope, the input
\* ranges of the old spans start at line 0, each starts where the one
\* before ends and the last ends with the concatenated code; every entry
\* of the delta that holds an edit lies in the range of exactly one old
\* span; and a Modified span is reported for an old span exactly when the
\* delta restricted to its range holds an edit.
C22_EveryEditAttributed ==
    (/\ sp_pc = "diffed"
     /\ sp_tag = "M"
     /\ spans_code(sp_scope_change.before) # spans_code(sp_scope_change.after)) =>
        LET old_scope == sp_scope_change.before
            n == Len(old_scope.spans)
            delta == line_diffs_to_original_delta(
                         change_to_line_diffs(spans_code(old_scope),
                                              spans_code(sp_scope_change.after))).delta
            rng(i) == InputRange(old_scope, i)
            sub(i) == delta_for_input_range(delta, rng(i)[1], rng(i)[2])
            reported == {sp_spans[k].line_range :
                            k \in {j \in 1..Len(sp_spans) :
                                      /\ sp_spans[j].path = old_scope.path
                                      /\ sp_spans[j].change.tag = "M"}}
        IN  /\ n > 0 => rng(1)[1] = 0 /\ rng(n)[2] = Len(spans_code(old_scope))
            /\ \A i \in 2..n : rng(i)[1] = rng(i - 1)[2]
            /\ \A k \in 1..Len(delta) :
                  delta[k] # <<>> =>
                      Cardinality({i \in 1..n : rng(i)[1] < k /\ k <= rng(i)[2]}) = 1
            /\ reported = {old_scope.spans[i].line_range :
                              i \in {j \in 1..n : DeltaNonEmpty(sub(j))}}

\* the changed spans the module change holds
StoredSpans == DictValues(sp_changed)

\* C27: a Modified span lies in a Modified scope of a Modified module, the
\* spans of an Added or Deleted scope are Added or Deleted; so after
\* pre_edit_analysis the usage map has an entry for the module of every
\* Modified span, the only spans process_change builds problems of.
C27_ModifiedSpanHasUsages ==
    /\ \A i \in 1..Len(sp_spans) :
          /\ sp_spans[i].change.tag = "M" => sp_tag = "M" /\ sp_spans[i].scope_tag = "M"
          /\ sp_spans[i].scope_tag # "M" => sp_spans[i].change.tag = sp_spans[i].scope_tag
    /\ sp_pc = "analysed" =>
          \A i \in 1..Len(StoredSpans) :
              StoredSpans[i].change.tag = "M" => SpanModule \in DOMAIN sp_result

\* a Modified module with a Modified span and a span of an added or
\* deleted scope has been analysed
C27_Witness ==
    /\ sp_pc = "analysed"
    /\ \E i, j \in 1..Len(StoredSpans) :
          StoredSpans[i].change.tag = "M" /\ StoredSpans[j].change.tag # "M"

\* C28: pre_edit_analysis asks the usage analysis only for lines of
\* changed spans that are not Added (their lines and header lines).
C28_NoAddedSpanAnalysed ==
    sp_pc = "analysed" =>
        \A mname \in DOMAIN sp_result :
            sp_result[mname] \subseteq
                UNION {PyRange(StoredSpans[i].line_range)
                           \cup PyRange(StoredSpans[i].header_line_range) :
                          i \in {j \in 1..Len(StoredSpans) : StoredSpans[j].change.tag # "A"}}

\* the module of a used definition: its full name without ".name"
DefModule(pydef) == SubSeq(pydef.full_name, 1, Len(pydef.full_name) - 2)

\* C29: get_relevant_unchanged skips as a self reference only definitions
\* of the edited span's own module: the spans of every definition of
\* another module used on the span's lines are in relevant_unchanged,
\* unless they are among the changed spans already shown.
C29_OtherModuleNeverSkipped ==
    \A i \in 1..Len(problems) :
        LET p == problems[i]
        IN  \A l \in AllLines(p.span) :
                \A pydef \in mod2usages[p.span.mod][l] :
                    DefModule(pydef) # p.span.mod =>
                        \A k \in 1..Len(DefSpans(pydef)) :
                            \/ DefSpans(pydef)[k] \in Range(p.relevant_unchanged)
                            \/ SpanKey(DefSpans(pydef)[k])
                                   \in SeenKeys(p.span, p.relevant_changes)

\* ------------------------------------------------------------------------
\* Properties of the chunking of dataset_from_projects
\* ------------------------------------------------------------------------
\* the pairs of adjacent commits of a commit sequence: the diffs its
\* replay processes
AdjacentPairs(commits) ==
    IF Len(commits) < 2 THEN <<>>
    ELSE [j \in 1..(Len(commits) - 1) |-> <<commits[j], commits[j + 1]>>]

\* the indices of the chunks of a root
ChunksOfRoot(r) == SelectSeq([k \in 1..Len(ch_roots) |-> k], LAMBDA k : ch_roots[k] = r)

\* C23: consecutive chunks of a history share exactly one commit; the
\* pairs of adjacent commits of the chunks of a history are, each once,
\* the pairs of adjacent commits of the history, so the replays of the
\* chunks process every diff exactly once; and every chunk is replayed in
\* its own work directory.
C23_ChunksCoverDiffsOnce ==
    /\ \A k \in 1..(Len(ch_roots) - 1) :
          ch_roots[k] = ch_roots[k + 1] =>
              Cardinality(Range(chunked_histories[k])
                              \cap Range(chunked_histories[k + 1])) = 1
    /\ ch_pc \in {"mapping", "done"} =>
          \A r \in 1..Len(ch_histories) :
              LET ks == ChunksOfRoot(r)
              IN  Flatten([t \in 1..Len(ks) |-> AdjacentPairs(chunked_histories[ks[t]])])
                      = AdjacentPairs(ch_histories[r])
    /\ ch_pc = "done" =>
          /\ Len(ch_calls) = Len(chunked_histories)
          /\ \A k \in 1..Len(ch_calls) :
                /\ ch_calls[k].commits = chunked_histories[k]
                /\ ch_calls[k].root = ch_roots[k]
          /\ \A k, l \in 1..Len(ch_calls) :
                k # l => ch_calls[k].workdir # ch_calls[l].workdir

\* a history of at least three chunks and a second project have been
\* replayed
C23_Witness ==
    /\ ch_pc = "done"
    /\ Len(ChunksOfRoot(1)) >= 3
    /\ Len(ChunksOfRoot(2)) >= 2

\* ------------------------------------------------------------------------
\* Properties of the analyzer-error report
\* ------------------------------------------------------------------------
\* the error texts of the printed report
ReportedTexts == {rp_report[i][1] : i \in 1..Len(rp_report)}

\* an exception whose text matches an entry of the allow-list
IsKnownException(e) == \E k \in KnownJediErrors : Contains(k, Str(e))

\* C21: the recorded errors of the exceptions whose text matches an entry
\* of the allow-list are left out of the printed report, and the recorded
\* errors of no other exception are left out.
C21_KnownErrorsFiltered ==
    rp_pc = "printed" =>
        \A e \in SampleExceptions :
            \A k \in RecordedAs(e) \cap DOMAIN rp_stats :
                IsKnownException(e) <=> k \notin ReportedTexts

====
